---- MODULE Spec2Model ----
(***************************************************************************)
(* Block Smasher: the play session of GameScreen (GlassButton.tsx, lines   *)
(* 332-1170): the level layout generator, the per-frame game loop, the     *)
(* input handlers, restart / pause, and React's handling of the state      *)
(* hooks gameState, score and lives.                                       *)
(*                                                                         *)
(* Numbers.  The program computes in floating point pixels.  The model     *)
(* computes in integers: one unit is 1/U pixel with U = 65, so that the    *)
(* directions of the trigonometric table below (Pythagorean triples of     *)
(* hypotenuse 65) give velocities of exactly the program's speed of 4      *)
(* pixels per frame.  sin / cos are a step function over that table.       *)
(*                                                                         *)
(* React.  setX(...) does not assign: it queues an update on the hook.     *)
(* The component renders later, and the render folds each hook's queue     *)
(* over its base state.  Updates queued by a click handler of the JSX      *)
(* (togglePause, handleRestart) have the sync lane and are rendered before *)
(* the handler's event ends; updates queued by the game loop (an animation *)
(* frame callback) have the default lane and are rendered by a later task, *)
(* which a following animation frame may precede.  A sync render skips     *)
(* the default-lane updates and keeps them, with everything queued after   *)
(* them on the same hook, for the next render (React's rebasing).  The     *)
(* game-loop effect depends on gameState: a render that changes it cancels *)
(* the pending frame and schedules the loop of the new closure, so the     *)
(* loop's captured gameState is the rendered one.                          *)
(*                                                                         *)
(* Specifications.  Spec plays sessions; SpecTeardown adds the back        *)
(* button; SpecPaddle moves the pointer over the whole canvas under a ball *)
(* that rests on the paddle.  SpecRandom calls one source of seededRandom  *)
(* again and again; its 32-bit state is kept as two 16-bit limbs and the   *)
(* quotient state / 2^32 is kept exact.  SpecGenerator calls               *)
(* generateBlocksForLevel; the clustered levels are laid out in fixed      *)
(* point (units of 1/U pixel, angles and sines in 1/Rad).  SpecApp is App  *)
(* with the menu and the map-selection screen, the play left out.          *)
(* SpecParticles plays level 1 with the particle setting on and off.       *)
(* SpecLoop follows the animation-frame requests of the game-loop effect   *)
(* one by one, each run of the effect with its own closure.  SpecWall      *)
(* applies the wall rule alone to balls next to each wall.  SpecMount      *)
(* starts at the first render of GameScreen and runs the effects of the    *)
(* mount before it plays.  The variables a specification does not use      *)
(* keep an idle value.                                                     *)
(***************************************************************************)
EXTENDS Integers, Sequences, FiniteSets, TLC

VARIABLES
    levelId,          \* prop levelId of the mounted GameScreen
    particleEffects,  \* settings.particleEffects
    gameState,        \* rendered value of the gameState hook
    score,            \* rendered value of the score hook
    lives,            \* rendered value of the lives hook
    base,             \* each hook's base state (differs from the rendered
                      \* value only while skipped updates wait)
    pending,          \* queued hook updates, in program order
    blocks,           \* blocksRef.current
    ball,             \* ballRef.current
    ballLaunched,     \* ballLaunchedRef.current
    paddle,           \* paddleRef.current
    mouseX,           \* mouseXRef.current
    particles,        \* particlesRef.current
    stale,            \* frames run since the oldest default-lane update was queued
    completeCalls,    \* calls of onLevelComplete since the session (re)started
    mounted,          \* GameScreen is on screen
    framePending,     \* the callback of animationFrameId is still to run
    op,               \* the operation that produced the state
    seed,             \* seededRandom: the argument of the source under study
    state,            \* seededRandom: the closure variable state
    value,            \* seededRandom: what the last call of random() returned
    calls,            \* seededRandom: calls of random() made so far
    genLevel,         \* generateBlocksForLevel: argument of the last call
    genBlocks,        \* generateBlocksForLevel: what the last call returned
    genClusters,      \* generateBlocksForLevel: clusters the last call laid out
    genCandidates,    \* generateBlocksForLevel: positions the last call computed
    genCalls,         \* generateBlocksForLevel: argument and result of every call
    currentScreen,    \* App: the currentScreen hook
    selectedMapId,    \* App: the selectedMapId hook
    unlockedLevels,   \* App: the unlockedLevels hook
    captured,         \* App: unlockedLevels as captured by the handleLevelComplete
                      \* the running game loop calls
    developerMode,    \* MapsScreen: the developerMode hook
    instantWinMode,   \* MapsScreen: the instantWinMode hook
    requested,        \* animation-frame requests neither run nor cancelled, each
                      \* with its id and the effect run whose gameLoop it calls
    closures,         \* per run of the game-loop effect: the gameState its closure
                      \* captured and its variable animationFrameId
    nextId,           \* ids requestAnimationFrame has handed out
    effectDue,        \* a render changed a dependency of the game-loop effect and
                      \* the effect has not been run again yet
    advances          \* loop bodies run by the last display frame

\* The session of GameScreen.
sessionVars == <<levelId, particleEffects, gameState, score, lives, base, pending,
                 blocks, ball, ballLaunched, paddle, mouseX, particles, stale,
                 completeCalls, mounted, framePending>>

\* A random source called on its own.
randomVars == <<seed, state, value, calls>>

\* Calls of the layout generator.
generatorVars == <<genLevel, genBlocks, genClusters, genCandidates, genCalls>>

\* The hooks of App.
appVars == <<currentScreen, selectedMapId, unlockedLevels, captured,
             developerMode, instantWinMode>>

\* The game-loop effect and the browser's animation-frame requests.
loopVars == <<requested, closures, nextId, effectDue, advances>>

\* What the session of GameScreen leaves alone.
outside == <<randomVars, generatorVars, appVars, loopVars>>

vars == <<sessionVars, op, outside>>

\* No random source is under study.
NoSource == seed = <<>> /\ state = <<>> /\ value = "none" /\ calls = 0

\* The generator has not been called on its own.
NoCall ==
    /\ genLevel = 0
    /\ genBlocks = <<>>
    /\ genClusters = 0
    /\ genCandidates = 0
    /\ genCalls = <<>>

\* The animation-frame requests are not followed one by one: framePending
\* stands for them.
NoLoop ==
    /\ requested = {} /\ closures = <<>> /\ nextId = 0 /\ effectDue = FALSE /\ advances = 0

\* App is left out: GameScreen is taken with the props it was mounted with.
NoApp ==
    /\ currentScreen = "game"
    /\ selectedMapId = "none"
    /\ unlockedLevels = <<>>
    /\ captured = <<>>
    /\ developerMode = FALSE
    /\ instantWinMode = FALSE

----------------------------------------------------------------------------
(* Bounds of the model *)

\* Frames that may run before React renders the default-lane updates.
MaxStaleTicks == 1

\* Clicks (pause, restart) React may handle while default-lane updates wait:
\* the sync-lane updates a sync render keeps for rebasing.
MaxKeptSync == 1

\* completeCalls saturates here.
MaxCompleteCalls == 3

\* Pixels below the canvas the ball's top edge may be when a frame starts: a
\* lost ball keeps falling for as long as the status stays 'playing'.
MaxFall == 8

\* Ids requestAnimationFrame hands out before the model stops.
MaxFrameIds == 7

\* Calls of the generator made one after the other.
MaxGeneratorCalls == 3

\* Arguments of those calls: below, in and above the hand-authored levels
\* 1..6, and levels from 100 on with their partners 12 levels later.
GeneratorLevelIds == {0, 1, 2, 3, 4, 5, 6, 7, 99, 100, 101, 111, 112, 113}

\* Procedural levels picked on the map-selection screen (of 101..112).
ProceduralPicks == {101}

\* Calls of random() made on one source under study.
MaxRandomCalls == 24

\* Seeds of the sources under study: 0, 1, the procedural levels 100 and
\* 111, level 6's 12345, 2^31 and 2^32 - 1.
Seeds == {<<0, 0>>, <<1, 0>>, <<100, 0>>, <<111, 0>>, <<12345, 0>>,
          <<0, 32768>>, <<65535, 65535>>}

\* Levels played: the grid of level 1 and an unrecognised level below 100.
LevelIds == {1, 7}

\* settings.particleEffects of the sessions played (the default of App).
ParticleSettings == {TRUE}

\* Pointer positions (canvas pixels) a mousemove may report.
MouseXs == {400, 112}

\* Pointer positions (canvas pixels) of the sessions that only move the
\* paddle: both edges of the canvas, the last positions whose target is
\* clamped (60 and 740), and positions on both sides of them.
PaddleMouseXs == {0, 30, 60, 61, 112, 400, 739, 740, 770, 800}

\* Launch angles in degrees, of the range [-30, 30] of Math.random.
LaunchAngles == {0, 24}

\* Contents of keysRef (the arrow keys held) a frame may find.
KeySets == {{}, {"ArrowLeft"}, {"ArrowRight"}, {"ArrowLeft", "ArrowRight"}}

----------------------------------------------------------------------------
(* Program constants (pixels unless said otherwise) *)

U == 5 * 13

CANVAS_WIDTH == 800
CANVAS_HEIGHT == 600
PaddleWidth == 120
PaddleHeight == 15
PaddleY == 560
PaddleStartX == 340
MouseStartX == 400
BallRadius == 8
BallOffsetY == 10
LaunchSpeed == 4
KeyStep == 8
StartLives == 3
BlockPoints == 10
WallBurst == 5
PaddleBurst == 8
BlockBurst == 15
\* particle life in thousandths: starts at 1, loses 0.016 per frame
ParticleLife == 1000
ParticleDecay == 16

Max(a, b) == IF a >= b THEN a ELSE b
Min(a, b) == IF a <= b THEN a ELSE b
Abs(a) == IF a < 0 THEN -a ELSE a

----------------------------------------------------------------------------
(* The random source (seededRandom, lines 354-360)                         *)
(*                                                                         *)
(* The program keeps state in a double.  A double holds every natural      *)
(* number below 2^53 and rounds a larger one to 53 significant bits.  The  *)
(* model keeps a natural number below 2^64 as four limbs of 16 bits, the   *)
(* lowest first, and a state below 2^32 as the two limbs <<low, high>>.    *)

Limb == 2 ^ 16

Multiplier == 1664525
Increment == 1013904223

\* Limbs of a number written with limbs that ran over (each below 2^31).
Carry(c) ==
    LET k1 == c[2] + (c[1] \div Limb)
        k2 == c[3] + (k1 \div Limb)
        k3 == c[4] + (k2 \div Limb)
    IN  <<c[1] % Limb, k1 % Limb, k2 % Limb, k3 % Limb>>

\* Number of bits of a limb.
RECURSIVE BitLength(_)
BitLength(n) == IF n = 0 THEN 0 ELSE 1 + BitLength(n \div 2)

\* A number format that keeps nothing below bit 24.
RoundDouble_Single(n) ==
    <<0, (n[2] \div 256) * 256, n[3], n[4]>>

\* The double nearest to a natural number (ties to even): a number below
\* 2^53 is kept, a larger one loses its lowest bits.
RoundDouble(n) ==
    IF n[4] < 32
    THEN n
    ELSE LET q == 2 ^ (BitLength(n[4]) - 5)
             rem == n[1] % q
             low == n[1] - rem
             up == rem * 2 > q \/ (rem * 2 = q /\ (n[1] \div q) % 2 = 1)
         IN  Carry(<<IF up THEN low + q ELSE low, n[2], n[3], n[4]>>)

\* state * k for a state below 2^32 (two limbs) and n + k for a number of
\* four limbs, as doubles; k is a natural number below 2^31.
Times(s, k) ==
    LET k0 == k % Limb
        k1 == k \div Limb
    IN  RoundDouble(Carry(<<s[1] * k0, s[1] * k1 + s[2] * k0, s[2] * k1, 0>>))

Plus(n, k) ==
    RoundDouble(Carry(<<n[1] + (k % Limb), n[2] + (k \div Limb), n[3], n[4]>>))

\* n % 4294967296: the remainder of a double is exact.
Mod32(n) == <<n[1], n[2]>>

\* A source that goes on from where the source before it stopped.
seededRandom_Shared(s) == IF state = <<>> THEN s ELSE state

\* let state = seed: a source starts from its own seed.
seededRandom(s) == s

\* state = (state * 1664525 + 1013904223) % 4294967296
NextState(s) == Mod32(Plus(Times(s, Multiplier), Increment))

\* return state / 4294967296: the quotient by a power of two is exact, so
\* the value is the fraction num / den.
Quotient(s) == [num |-> s, den |-> <<0, 0, 1>>]

\* The limbs of a seed below 2^31.
Seed(n) == <<n % Limb, n \div Limb>>

\* A source called on its own: seededRandom(seed), then random() again and
\* again.  No session, no call of the generator, no App.
NoSession ==
    /\ levelId = "none"
    /\ particleEffects = TRUE
    /\ gameState = "none"
    /\ score = 0
    /\ lives = 0
    /\ base = "none"
    /\ pending = <<>>
    /\ blocks = <<>>
    /\ ball = "none"
    /\ ballLaunched = FALSE
    /\ paddle = "none"
    /\ mouseX = 0
    /\ particles = <<>>
    /\ stale = 0
    /\ completeCalls = 0
    /\ mounted = FALSE
    /\ framePending = FALSE

InitRandom ==
    /\ seed \in Seeds
    /\ state = seededRandom(seed)
    /\ value = "none"
    /\ calls = 0
    /\ op = "seed"
    /\ NoSession /\ NoCall /\ NoApp /\ NoLoop

random ==
    /\ calls < MaxRandomCalls
    /\ state' = NextState(state)
    /\ value' = Quotient(state')
    /\ calls' = calls + 1
    /\ op' = "random"
    /\ UNCHANGED <<seed, sessionVars, generatorVars, appVars, loopVars>>

SpecRandom == InitRandom /\ [][random]_vars

----------------------------------------------------------------------------
(* Level layout generator *)

Block(x, y, w, h, color) ==
    [x |-> x * U, y |-> y * U, width |-> w * U, height |-> h * U,
     alive |-> TRUE, color |-> color]

\* The grid of level 1 with the loops exchanged (column-major).
Level1Blocks_ColumnMajor ==
    [i \in 1..24 |->
        Block(50 + ((i - 1) \div 4) * 65, 50 + ((i - 1) % 4) * 30, 60, 25, "#3b82f6")]

\* Level 1: rows x cols grid, row-major (the inner loop runs over col).
Level1Blocks ==
    LET rows == 4
        cols == 6
        blockWidth == 60
        blockHeight == 25
        gapX == 5
        gapY == 5
        startX == 50
        startY == 50
    IN  [i \in 1..(rows * cols) |->
            LET row == (i - 1) \div cols
                col == (i - 1) % cols
            IN  Block(startX + col * (blockWidth + gapX),
                      startY + row * (blockHeight + gapY),
                      blockWidth, blockHeight, "#3b82f6")]

\* A block given in units.
BlockAt(x, y, w, h, color) ==
    [x |-> x, y |-> y, width |-> w, height |-> h, alive |-> TRUE, color |-> color]

(* Math.sin and Math.cos of the generator.  An angle is a whole number of  *)
(* 1/Rad radian and a sine is a whole number of 1/Rad: the angle is        *)
(* brought into the first quadrant and the sine series is summed up to     *)
(* the term of degree 9 (error below 2/Rad).                               *)
Rad == 10000
Pi == 31416

SinQ(x) ==
    LET x2 == (x * x) \div Rad
        h4 == Rad - (x2 \div 72)
        h3 == Rad - (((x2 * h4) \div Rad) \div 42)
        h2 == Rad - (((x2 * h3) \div Rad) \div 20)
        h1 == Rad - (((x2 * h2) \div Rad) \div 6)
    IN  (x * h1) \div Rad

SinR(a) ==
    LET x == a % (2 * Pi)
    IN  IF x <= Pi \div 2 THEN SinQ(x)
        ELSE IF x <= Pi THEN SinQ(Pi - x)
        ELSE IF x <= Pi + (Pi \div 2) THEN -SinQ(x - Pi)
        ELSE -SinQ(2 * Pi - x)

CosR(a) == SinR(a + (Pi \div 2))

\* length * sine: a length in units times a sine, in units.
Along(len, sine) == (len * sine) \div Rad

\* Level 2: numBlocks blocks on a circle, starting from the top.
Level2Blocks ==
    LET blockWidth == 70 * U
        blockHeight == 25 * U
        centerX == (CANVAS_WIDTH * U) \div 2
        centerY == 200 * U
        radius == 120 * U
        numBlocks == 8
    IN  [k \in 1..numBlocks |->
            LET i == k - 1
                angle == ((i * 2 * Pi) \div numBlocks) - (Pi \div 2)
            IN  BlockAt(centerX + Along(radius, CosR(angle)) - (blockWidth \div 2),
                        centerY + Along(radius, SinR(angle)) - (blockHeight \div 2),
                        blockWidth, blockHeight, "#7c3aed")]

\* One row of n blocks from startX on, gap-separated, all of one colour.
BlockRow(n, startX, y, w, h, gapX, color) ==
    [k \in 1..n |-> BlockAt(startX + (k - 1) * (w + gapX), y, w, h, color)]

RECURSIVE Concat(_)
Concat(seqs) == IF seqs = <<>> THEN <<>> ELSE Head(seqs) \o Concat(Tail(seqs))

\* Level 3: centred rows of 7, 6, ..., 1 blocks, startY growing by
\* blockHeight + gapY per row.
Level3Blocks ==
    LET blockWidth == 55 * U
        blockHeight == 22 * U
        gapX == 8 * U
        gapY == 8 * U
        colors == <<"#f97316", "#fb923c", "#fdba74", "#fed7aa">>
        pyramidRows == <<7, 6, 5, 4, 3, 2, 1>>
        startY == 50 * U
    IN  Concat([r \in 1..Len(pyramidRows) |->
            LET rowIndex == r - 1
                blocksInRow == pyramidRows[r]
                rowWidth == blocksInRow * blockWidth + (blocksInRow - 1) * gapX
                startX == (CANVAS_WIDTH * U - rowWidth) \div 2
            IN  BlockRow(blocksInRow, startX, startY + rowIndex * (blockHeight + gapY),
                         blockWidth, blockHeight, gapX,
                         colors[(rowIndex % Len(colors)) + 1])])

\* Level 4: the squares of an 8 x 8 grid with row + col even, row-major.
Level4Blocks ==
    LET rows == 8
        cols == 8
        blockWidth == 55 * U
        blockHeight == 22 * U
        gapX == 4 * U
        gapY == 4 * U
        startX == (CANVAS_WIDTH * U - (cols * blockWidth + (cols - 1) * gapX)) \div 2
        startY == 50 * U
        all == [i \in 1..(rows * cols) |->
                   LET row == (i - 1) \div cols
                       col == (i - 1) % cols
                   IN  [row |-> row, col |-> col,
                        block |-> BlockAt(startX + col * (blockWidth + gapX),
                                          startY + row * (blockHeight + gapY),
                                          blockWidth, blockHeight,
                                          IF row % 2 = 0 THEN "#06b6d4" ELSE "#a855f7")]]
        kept == SelectSeq(all, LAMBDA e : (e.row + e.col) % 2 = 0)
    IN  [i \in 1..Len(kept) |-> kept[i].block]

\* Level 5: outer wall, left tower, right tower, inner wall, core.
Level5Blocks ==
    LET blockWidth == 50 * U
        blockHeight == 20 * U
        gapX == 5 * U
        gapY == 5 * U
        colors == <<"#dc2626", "#ef4444", "#f97316", "#fb923c">>
        outerWallBlocks == 12
        outerY == 50 * U
        outerStartX == (CANVAS_WIDTH * U
                        - (outerWallBlocks * blockWidth + (outerWallBlocks - 1) * gapX)) \div 2
        tower(firstCol) ==
            Concat([r \in 1..2 |->
                BlockRow(2, outerStartX + firstCol * (blockWidth + gapX),
                         outerY + r * (blockHeight + gapY),
                         blockWidth, blockHeight, gapX, colors[r + 1])])
        innerWallBlocks == 8
        innerY == outerY + (blockHeight + gapY) * 3
        innerStartX == (CANVAS_WIDTH * U
                        - (innerWallBlocks * blockWidth + (innerWallBlocks - 1) * gapX)) \div 2
        coreBlocks == 4
        coreY == innerY + (blockHeight + gapY)
        coreStartX == (CANVAS_WIDTH * U
                       - (coreBlocks * blockWidth + (coreBlocks - 1) * gapX)) \div 2
    IN  BlockRow(outerWallBlocks, outerStartX, outerY, blockWidth, blockHeight, gapX,
                 colors[1])
        \o tower(0)
        \o tower(outerWallBlocks - 2)
        \o BlockRow(innerWallBlocks, innerStartX, innerY, blockWidth, blockHeight, gapX,
                    colors[2])
        \o Concat([r \in 1..2 |->
               BlockRow(coreBlocks, coreStartX, coreY + (r - 1) * (blockHeight + gapY),
                        blockWidth, blockHeight, gapX, colors[4])])

(* Levels laid out from a random source: level 6 and the levels from 100   *)
(* on.  Both branches lay out clusters the same way with different         *)
(* numbers, gathered here per branch.  Lengths are in units, angles in     *)
(* 1/Rad radian, factors in 1/Rad.                                         *)

\* floor(random() * n) for the value state / 2^32 of a call of random() and
\* a natural number n below 2^16, exactly: the product has at most 48 bits.
RandomTimes(s, n) ==
    LET nl == n % 256
        nh == n \div 256
    IN  (s[2] * nh + ((s[2] * nl + ((s[1] * nh + ((s[1] * nl) \div 256)) \div 256))
                      \div 256)) \div 256

\* F(e), with e evaluated once however often F uses it.
With(e, F(_)) == CHOOSE r \in {F(x) : x \in {e}} : TRUE

\* The state a source starts in, then its state after each of its first n
\* calls of random(); made holds the first of them.
RECURSIVE Draws(_, _)
Draws(made, n) ==
    IF Len(made) = n + 1
    THEN made
    ELSE With(Append(made, NextState(made[Len(made)])), LAMBDA more : Draws(more, n))

Level6Layout ==
    [seed |-> Seed(12345),
     numClusters |-> 10,
     patterns |-> <<"tight", "scattered", "line", "arc">>,
     countMin |-> 5, countSpan |-> 4,
     widthMin |-> 40 * U, widthSpan |-> 15 * U,
     heightMin |-> 18 * U, heightSpan |-> 8 * U,
     gapMin |-> 4 * U, gapSpan |-> 3 * U,
     radiusMin |-> 25 * U, radiusSpan |-> 30 * U,
     jitterSpan |-> Rad \div 2,
     reachMin |-> (7 * Rad) \div 10, reachSpan |-> (6 * Rad) \div 10,
     lineTurn |-> 4,
     spacingMin |-> 3 * U, spacingSpan |-> 5 * U,
     waveStep |-> (8 * Rad) \div 10, waveHeight |-> 10 * U,
     arcRadiusMin |-> 40 * U, arcRadiusSpan |-> 40 * U,
     arcLengthMin |-> (Pi * 6) \div 10, arcLengthSpan |-> (Pi * 4) \div 10]

\* A difficulty that keeps growing with the level.
levelDifficulty_Unbounded(level) == level - 100

\* const levelDifficulty = (level - 100) % 12
levelDifficulty(level) == (level - 100) % 12

ProceduralLayout(level) ==
        [seed |-> Seed(level),
         numClusters |-> 6 + (levelDifficulty(level) \div 2),
         patterns |-> <<"tight", "scattered", "line", "arc", "spiral">>,
         countMin |-> 4, countSpan |-> 6,
         widthMin |-> 35 * U, widthSpan |-> 20 * U,
         heightMin |-> 18 * U, heightSpan |-> 10 * U,
         gapMin |-> 3 * U, gapSpan |-> 4 * U,
         radiusMin |-> 25 * U, radiusSpan |-> 35 * U,
         jitterSpan |-> (6 * Rad) \div 10,
         reachMin |-> (6 * Rad) \div 10, reachSpan |-> (7 * Rad) \div 10,
         lineTurn |-> 3,
         spacingMin |-> 2 * U, spacingSpan |-> 6 * U,
         waveStep |-> (9 * Rad) \div 10, waveHeight |-> 12 * U,
         arcRadiusMin |-> 35 * U, arcRadiusSpan |-> 50 * U,
         arcLengthMin |-> (Pi * 5) \div 10, arcLengthSpan |-> (Pi * 6) \div 10]

ClusterColors == <<"#f97316", "#06b6d4", "#a855f7", "#ec4899", "#eab308">>
Margin == 50
MaxPlayableY == 420
ClusterRoomX == 150
ClusterRoomY == 100

\* A generator that pushes every candidate position.
InPlayfield_Any(x, y, w, h) == TRUE

\* The test a candidate position passes before its block is pushed.

InPlayfield(x, y, w, h) ==
    /\ x >= Margin * U
    /\ x + w <= (CANVAS_WIDTH - Margin) * U
    /\ y >= Margin * U
    /\ y + h <= MaxPlayableY * U

\* The draws one cluster can make at most: 8 and two per block of at most
\* countMin + countSpan - 1 blocks.
MaxDraws(L) == 8 + 2 * (L.countMin + L.countSpan - 1)

(* One cluster, laid out by a source in state s.  The result has the       *)
(* blocks pushed, the number of candidate positions and the state the      *)
(* cluster leaves the source in.                                           *)
ClusterOf(L, d) ==
    LET at == 1
        clusterX == Margin * U
                    + RandomTimes(d[at + 1], (CANVAS_WIDTH - Margin * 2 - ClusterRoomX) * U)
        clusterY == Margin * U
                    + RandomTimes(d[at + 2], (MaxPlayableY - Margin - ClusterRoomY) * U)
        pattern == L.patterns[RandomTimes(d[at + 3], Len(L.patterns)) + 1]
        blockCount == L.countMin + RandomTimes(d[at + 4], L.countSpan)
        color == ClusterColors[RandomTimes(d[at + 5], Len(ClusterColors)) + 1]
        blockWidth == L.widthMin + RandomTimes(d[at + 6], L.widthSpan)
        blockHeight == L.heightMin + RandomTimes(d[at + 7], L.heightSpan)
        tight(i) ==
            LET rows == 2
                cols == (blockCount + rows - 1) \div rows
                gap == L.gapMin + RandomTimes(d[at + 8], L.gapSpan)
                row == i \div cols
                col == i % cols
            IN  [x |-> clusterX + col * (blockWidth + gap),
                 y |-> clusterY + row * (blockHeight + gap)]
        scattered(i) ==
            LET radius == L.radiusMin + RandomTimes(d[at + 8], L.radiusSpan)
                angle == ((i * 2 * Pi) \div blockCount)
                         + RandomTimes(d[at + 9 + 2 * i], L.jitterSpan)
                r == Along(radius, L.reachMin + RandomTimes(d[at + 10 + 2 * i], L.reachSpan))
            IN  [x |-> clusterX + Along(r, CosR(angle)),
                 y |-> clusterY + Along(r, SinR(angle))]
        line(i) ==
            LET angle == (RandomTimes(d[at + 8], Pi) \div L.lineTurn)
                         - (Pi \div (2 * L.lineTurn))
                spacing == blockWidth + L.spacingMin + RandomTimes(d[at + 9], L.spacingSpan)
            IN  [x |-> clusterX + Along(i * spacing, CosR(angle)),
                 y |-> clusterY + Along(i * spacing, SinR(angle))
                       + Along(L.waveHeight, SinR(i * L.waveStep))]
        arc(i) ==
            LET arcRadius == L.arcRadiusMin + RandomTimes(d[at + 8], L.arcRadiusSpan)
                startAngle == RandomTimes(d[at + 9], Pi)
                arcLength == L.arcLengthMin + RandomTimes(d[at + 10], L.arcLengthSpan)
                steps == IF blockCount - 1 = 0 THEN 1 ELSE blockCount - 1
                angle == startAngle + ((i * arcLength) \div steps)
            IN  [x |-> clusterX + Along(arcRadius, CosR(angle)),
                 y |-> clusterY + Along(arcRadius, SinR(angle))]
        spiral(i) ==
            LET spiralTightness == 3 * Rad + RandomTimes(d[at + 8], 4 * Rad)
                angle == (i * 3 * Pi) \div blockCount
                radius == 10 * U + Along((i * 15 * U) \div blockCount, spiralTightness)
            IN  [x |-> clusterX + Along(radius, CosR(angle)),
                 y |-> clusterY + Along(radius, SinR(angle))]
        position(i) ==
            CASE pattern = "tight" -> tight(i)
              [] pattern = "scattered" -> scattered(i)
              [] pattern = "line" -> line(i)
              [] pattern = "arc" -> arc(i)
              [] pattern = "spiral" -> spiral(i)
        candidates ==
            [k \in 1..blockCount |->
                With(position(k - 1),
                     LAMBDA c : BlockAt(c.x, c.y, blockWidth, blockHeight, color))]
        draws ==
            CASE pattern = "tight" -> 8
              [] pattern = "scattered" -> 8 + 2 * blockCount
              [] pattern = "line" -> 9
              [] pattern = "arc" -> 10
              [] pattern = "spiral" -> 8
    IN  [blocks |-> SelectSeq(candidates,
                              LAMBDA b : InPlayfield(b.x, b.y, b.width, b.height)),
         candidates |-> blockCount,
         state |-> d[at + draws]]

Cluster(L, s) == With(Draws(<<s>>, MaxDraws(L)), LAMBDA d : ClusterOf(L, d))

\* for (let c = 0; c < numClusters; c++): the clusters one after the other;
\* done holds what the clusters before c have left.
RECURSIVE Clusters(_, _, _)
Clusters(L, c, done) ==
    IF c = L.numClusters
    THEN done
    ELSE With(Cluster(L, done.state),
              LAMBDA cl :
                  With([seed |-> done.seed,
                        blocks |-> done.blocks \o cl.blocks,
                        candidates |-> done.candidates + cl.candidates,
                        clusters |-> done.clusters + 1,
                        state |-> cl.state],
                       LAMBDA more : Clusters(L, c + 1, more)))

\* The layout of a level of the random kind: const random =
\* seededRandom(seed), const blocks = [], then the clusters.
Layout(L) ==
    With([seed |-> L.seed, blocks |-> <<>>, candidates |-> 0, clusters |-> 0,
          state |-> seededRandom(L.seed)],
         LAMBDA none : Clusters(L, 0, none))

\* No branch of the if-chain matches a level below 100 outside 1..6: the
\* empty list declared at the top is returned.
\* A generator that falls back to the grid of level 1.
Generated_DefaultGrid(level) ==
    [seed |-> <<>>, blocks |-> Level1Blocks, candidates |-> Len(Level1Blocks),
     clusters |-> 0, state |-> <<>>]

Generated(level) ==
    LET fixed(bs) == [seed |-> <<>>, blocks |-> bs, candidates |-> Len(bs), clusters |-> 0,
                      state |-> <<>>]
    IN  CASE level = 1 -> fixed(Level1Blocks)
          [] level = 2 -> fixed(Level2Blocks)
          [] level = 3 -> fixed(Level3Blocks)
          [] level = 4 -> fixed(Level4Blocks)
          [] level = 5 -> fixed(Level5Blocks)
          [] level = 6 -> Layout(Level6Layout)
          [] level >= 100 -> Layout(ProceduralLayout(level))
          [] OTHER -> fixed(<<>>)

generateBlocksForLevel(level) == Generated(level).blocks

\* curatedMaps of the map-selection screen (MapsScreen.tsx): the field
\* blocks of the maps with id 1..6.
curatedMaps == [id \in 1..6 |-> [id |-> id, blocks |-> <<24, 8, 36, 32, 64, 80>>[id]]]

\* The generator called on its own, for one level after the other.
InitGenerator ==
    /\ op = "start"
    /\ NoSession /\ NoSource /\ NoCall /\ NoApp /\ NoLoop

callGenerator ==
    /\ Len(genCalls) < MaxGeneratorCalls
    /\ \E level \in GeneratorLevelIds :
         \E g \in {Generated(level)} :
             /\ genLevel' = level
             /\ genBlocks' = g.blocks
             /\ genClusters' = g.clusters
             /\ genCandidates' = g.candidates
             /\ genCalls' = Append(genCalls, [level |-> level, blocks |-> g.blocks,
                                                 clusters |-> g.clusters])
             /\ seed' = g.seed
             /\ state' = g.state
    /\ op' = "generate"
    /\ UNCHANGED <<value, calls, sessionVars, appVars, loopVars>>

SpecGenerator == InitGenerator /\ [][callGenerator]_vars

\* A victory check that is content with one dead block.
AllDead_SomeDead(bs) == \E i \in 1..Len(bs) : ~bs[i].alive

AllDead(bs) == \A i \in 1..Len(bs) : ~bs[i].alive

----------------------------------------------------------------------------
(* Trigonometry: sin and cos of an angle in whole degrees, times U, as a   *)
(* step function over the directions 0, 22.62 and 53.13 degrees            *)
(* (triples 0-65-65, 25-60-65, 52-39-65).                                  *)

SinU(deg) ==
    LET a == Abs(deg)
        m == IF a <= 11 THEN 0 ELSE IF a <= 37 THEN 25 ELSE 52
    IN  IF deg < 0 THEN -m ELSE m

CosU(deg) ==
    LET a == Abs(deg)
    IN  IF a <= 11 THEN 65 ELSE IF a <= 37 THEN 60 ELSE 39

\* Math.sqrt on the squares that occur (integer square root).
Sqrt(n) == CHOOSE r \in 0..(8 * U) : r * r <= n /\ (r + 1) * (r + 1) > n

\* Math.max(0, Math.min(CANVAS_WIDTH - paddle.width, x))
ClampPaddle(x, width) == Max(0, Min(CANVAS_WIDTH * U - width, x))

\* The ball as the "Initialize ball" effect and handleRestart build it.
BallOnPaddle(p) ==
    [x |-> p.x + p.width \div 2, y |-> p.y - BallOffsetY * U,
     dx |-> 0, dy |-> 0, radius |-> BallRadius * U]

----------------------------------------------------------------------------
(* React hook queues *)

Hooks == {"gameState", "score", "lives"}

\* setGameState(v)
SetGameState(v, lane) ==
    [hook |-> "gameState", lane |-> lane, kind |-> "set", st |-> v, n |-> 0,
     orphan |-> FALSE]
\* setScore((s) => s + 10)
AddScore(lane) ==
    [hook |-> "score", lane |-> lane, kind |-> "add", st |-> "", n |-> BlockPoints,
     orphan |-> FALSE]
\* setScore(0)
SetScore(v, lane) ==
    [hook |-> "score", lane |-> lane, kind |-> "set", st |-> "", n |-> v,
     orphan |-> FALSE]
\* setLives(3), or a setLives updater React has already evaluated (eager state)
SetLives(v, lane) ==
    [hook |-> "lives", lane |-> lane, kind |-> "set", st |-> "", n |-> v,
     orphan |-> FALSE]
\* setLives((l) => ...) whose updater has not run yet.  orphan: the ball
\* object its closure holds is no longer ballRef.current.
LivesUpdater(lane) ==
    [hook |-> "lives", lane |-> lane, kind |-> "updater", st |-> "", n |-> 0,
     orphan |-> FALSE]

HasDefault(q) == \E i \in 1..Len(q) : q[i].lane = "default"
KeptSync(q) == Len(SelectSeq(q, LAMBDA u : u.lane = "sync"))

\* The reducer of one update on the hook's state s.
Reduce(u, s) ==
    CASE u.hook = "gameState" -> u.st
      [] u.hook = "score" -> IF u.kind = "add" THEN s + u.n ELSE u.n
      [] u.hook = "lives" -> IF u.kind = "updater" THEN s - 1 ELSE u.n

(* One render over the queue q with the lanes in L.  acc.memo is each       *)
(* hook's new state, acc.base its new base state, acc.skipped the hooks     *)
(* with a skipped update, acc.keep the updates kept for the next render.    *)
(* Running a setLives updater has the side effects of lines 971-984:        *)
(* acc.defeat (setGameState('defeat') called while rendering), acc.rearm    *)
(* (ballLaunchedRef reset) and acc.reset (the current ball repositioned).   *)
RECURSIVE RenderQueue(_, _, _)
RenderQueue(q, L, acc) ==
    IF q = <<>> THEN acc
    ELSE
      LET u == Head(q)
          h == u.hook
      IN  IF u.lane \notin L
          THEN RenderQueue(Tail(q), L,
                 [acc EXCEPT !.base[h] = IF h \in acc.skipped THEN @ ELSE acc.memo[h],
                             !.skipped = @ \cup {h},
                             !.keep = Append(@, u)])
          ELSE
            LET v == Reduce(u, acc.memo[h])
                ran == u.kind = "updater"
            IN  RenderQueue(Tail(q), L,
                  [acc EXCEPT !.memo[h] = v,
                              !.keep = IF h \in acc.skipped THEN Append(@, u) ELSE @,
                              !.defeat = @ \/ (ran /\ v <= 0),
                              !.rearm = @ \/ (ran /\ v > 0),
                              !.reset = @ \/ (ran /\ v > 0 /\ ~u.orphan)])

RenderResult(q, L, b) ==
    LET acc == RenderQueue(q, L,
                 [memo |-> b, base |-> b, skipped |-> {}, keep |-> <<>>,
                  defeat |-> FALSE, rearm |-> FALSE, reset |-> FALSE])
        \* a render-phase setGameState('defeat') is applied on top, in the
        \* re-render of the same pass
        memo == IF acc.defeat THEN [acc.memo EXCEPT !.gameState = "defeat"] ELSE acc.memo
    IN  [acc EXCEPT !.memo = memo,
                    !.base = [h \in Hooks |-> IF h \in acc.skipped THEN acc.base[h]
                                                ELSE memo[h]]]

----------------------------------------------------------------------------
(* The state after mounting: useState initial values, the refs, and the    *)
(* two effects keyed on levelId (blocks, ball).                            *)

Init ==
    /\ levelId \in LevelIds
    /\ particleEffects \in ParticleSettings
    /\ gameState = "playing"
    /\ score = 0
    /\ lives = StartLives
    /\ base = [gameState |-> "playing", score |-> 0, lives |-> StartLives]
    /\ pending = <<>>
    /\ blocks = generateBlocksForLevel(levelId)
    /\ paddle = [x |-> PaddleStartX * U, y |-> PaddleY * U,
                 width |-> PaddleWidth * U, height |-> PaddleHeight * U]
    /\ ball = BallOnPaddle(paddle)
    /\ ballLaunched = FALSE
    /\ mouseX = MouseStartX * U
    /\ particles = <<>>
    /\ stale = 0
    /\ completeCalls = 0
    /\ mounted = TRUE
    /\ framePending = TRUE
    /\ op = "mount"
    /\ NoSource /\ NoCall /\ NoApp /\ NoLoop

----------------------------------------------------------------------------
(* The game loop *)

\* A createParticles without the test of settings.particleEffects.
createParticles_Always(ps, count, color) ==
    ps \o [i \in 1..count |-> [life |-> ParticleLife, color |-> color]]

\* createParticles(x, y, count, color): position, velocity and size of a
\* particle (Math.random) are left out; its life and colour are kept.
createParticles(ps, count, color) ==
    IF ~particleEffects THEN ps
    ELSE ps \o [i \in 1..count |-> [life |-> ParticleLife, color |-> color]]

\* The filter of "Update and draw particles": every particle ages, those
\* with life > 0 stay.
AgeParticles(ps) ==
    LET aged == [i \in 1..Len(ps) |-> [ps[i] EXCEPT !.life = @ - ParticleDecay]]
    IN  SelectSeq(aged, LAMBDA q : q.life > 0)

\* A paddle update in which the key-hold steps come last and so move the
\* paddle away from the pointer.
UpdatePaddle_KeysWin(p, held, mx) ==
    LET p0 == [p EXCEPT !.x = ClampPaddle(mx - p.width \div 2, p.width)]
        p1 == IF "ArrowLeft" \in held
              THEN [p0 EXCEPT !.x = Max(0, p0.x - KeyStep * U)] ELSE p0
    IN  IF "ArrowRight" \in held
        THEN [p1 EXCEPT !.x = Min(CANVAS_WIDTH * U - p1.width, p1.x + KeyStep * U)]
        ELSE p1

\* "Update paddle": key-hold steps, then the pointer position overwrites x.
UpdatePaddle(p, held, mx) ==
    LET p1 == IF "ArrowLeft" \in held
              THEN [p EXCEPT !.x = Max(0, p.x - KeyStep * U)] ELSE p
        p2 == IF "ArrowRight" \in held
              THEN [p1 EXCEPT !.x = Min(CANVAS_WIDTH * U - p1.width, p1.x + KeyStep * U)]
              ELSE p1
    IN  [p2 EXCEPT !.x = ClampPaddle(mx - p2.width \div 2, p2.width)]

\* ball.x += ball.dx; ball.y += ball.dy
Integrate(b) == [b EXCEPT !.x = b.x + b.dx, !.y = b.y + b.dy]

HitsSideWall(b) == b.x - b.radius <= 0 \/ b.x + b.radius >= CANVAS_WIDTH * U
HitsTopWall(b) == b.y - b.radius <= 0

\* Walls that turn the ball back into the canvas: dx made positive at the
\* left wall and negative at the right one, dy made positive at the top.
WallBounce_Inward(b) ==
    LET b1 == IF b.x - b.radius <= 0 THEN [b EXCEPT !.dx = Abs(b.dx)]
              ELSE IF b.x + b.radius >= CANVAS_WIDTH * U THEN [b EXCEPT !.dx = -Abs(b.dx)]
              ELSE b
    IN  IF HitsTopWall(b1) THEN [b1 EXCEPT !.dy = Abs(b1.dy)] ELSE b1

\* "Wall collisions"
WallBounce(b) ==
    LET b1 == IF HitsSideWall(b) THEN [b EXCEPT !.dx = -b.dx] ELSE b
    IN  IF HitsTopWall(b1) THEN [b1 EXCEPT !.dy = -b1.dy] ELSE b1

HitsPaddle(b, p) ==
    /\ b.y + b.radius >= p.y
    /\ b.y - b.radius <= p.y + p.height
    /\ b.x >= p.x
    /\ b.x <= p.x + p.width

\* "Paddle collision": hitPos = (ball.x - paddle.x) / paddle.width, the angle
\* (hitPos - 0.5) * PI / 1.5 is (hitPos - 0.5) * 120 degrees.
PaddleBounce(b, p) ==
    LET dy1 == -Abs(b.dy)
        deg == ((b.x - p.x) * 120) \div p.width - 60
        speed == Sqrt(b.dx * b.dx + dy1 * dy1)
    IN  [b EXCEPT !.dx = (SinU(deg) * speed) \div U,
                  !.dy = -Abs((CosU(deg) * speed) \div U)]

\* The bounding-box test of "Block collisions".
Overlaps(b, k) ==
    /\ b.x + b.radius >= k.x
    /\ b.x - b.radius <= k.x + k.width
    /\ b.y + b.radius >= k.y
    /\ b.y - b.radius <= k.y + k.height

\* A collision pass that stops at the first block it hits.
HitBlocks_First(bs, b) ==
    LET all == {i \in 1..Len(bs) : bs[i].alive /\ Overlaps(b, bs[i])}
    IN  {i \in all : \A j \in all : i <= j}

\* The blocks the forEach hits: alive and overlapping (the loop changes
\* ball.dy only, which the test does not read).
HitBlocks(bs, b) == {i \in 1..Len(bs) : bs[i].alive /\ Overlaps(b, bs[i])}

\* A collision pass that rewrites every flag: alive unless hit in this frame.
KillBlocks_Rewrite(bs, hit) == [i \in 1..Len(bs) |-> [bs[i] EXCEPT !.alive = i \notin hit]]

KillBlocks(bs, hit) == [i \in 1..Len(bs) |-> IF i \in hit THEN [bs[i] EXCEPT !.alive = FALSE] ELSE bs[i]]

\* ball.dy = -ball.dy once per hit block
BlockBounce(b, hit) == IF Cardinality(hit) % 2 = 1 THEN [b EXCEPT !.dy = -b.dy] ELSE b

\* createParticles(..., 15, block.color) for each hit block, in list order
RECURSIVE BlockBursts(_, _, _, _)
BlockBursts(ps, bs, hit, i) ==
    IF i > Len(bs) THEN ps
    ELSE BlockBursts(IF i \in hit THEN createParticles(ps, BlockBurst, bs[i].color) ELSE ps,
                     bs, hit, i + 1)

\* "Ball out of bounds (bottom)"
OutOfBounds(b) == b.y - b.radius > CANVAS_HEIGHT * U

\* A score that counts a frame with hits once, however many blocks it hit.
ScoreUpdates_OncePerFrame(hit) == IF hit = {} THEN <<>> ELSE <<AddScore("default")>>

\* setScore((s) => s + 10), once per hit block
ScoreUpdates(hit) == [i \in 1..Cardinality(hit) |-> AddScore("default")]

\* The ball reset of the setLives updater (lines 977-980).
ResetBall(b, p) ==
    [b EXCEPT !.x = p.x + p.width \div 2, !.y = p.y - BallOffsetY * U, !.dx = 0, !.dy = 0]

\* A guard that stops the loop body while paused only.
LoopRuns_UnlessPaused(gs) == gs # "paused"

\* A guard that stops the loop body after the end of the game only.
LoopRuns_UntilEnd(gs) == gs \notin {"victory", "defeat"}

\* The guard at the top of gameLoop: the loop body runs in 'playing' only.
LoopRuns(gs) == gs = "playing"

(* One animation frame.  mx is the pointer position mouseXRef holds, p the  *)
(* paddle after "Update paddle".  eager: React ran the setLives updater     *)
(* inside the setLives call, which it does only when the component has no   *)
(* queued update (none from an earlier frame, none from this frame's        *)
(* setScore or setFps); otherwise the updater runs in the next render.      *)
gameLoop(mx, p, eager) ==
    IF ~LoopRuns(gameState)
    THEN /\ mouseX' = mx
         /\ op' = "tick"
         /\ UNCHANGED <<outside, mounted, framePending, levelId, particleEffects, gameState, score, lives, base, pending,
                        blocks, ball, ballLaunched, paddle, particles, stale, completeCalls>>
    ELSE
      LET moved == Integrate(ball)
          walled == WallBounce(moved)
          b4 == IF HitsPaddle(walled, p) THEN PaddleBounce(walled, p) ELSE walled
          hit == HitBlocks(blocks, b4)
          b5 == BlockBounce(b4, hit)
          out == OutOfBounds(b5)
          ps1 == IF HitsSideWall(moved) THEN createParticles(particles, WallBurst, "#00d9ff")
                 ELSE particles
          ps2 == IF HitsTopWall(moved) THEN createParticles(ps1, WallBurst, "#00d9ff") ELSE ps1
          ps3 == IF HitsPaddle(walled, p) THEN createParticles(ps2, PaddleBurst, "#7c3aed")
                 ELSE ps2
          ps4 == BlockBursts(ps3, blocks, hit, 1)
          q1 == pending \o ScoreUpdates(hit)
          runsNow == out /\ eager /\ q1 = <<>>
          newLives == lives - 1
          q2 == IF ~out THEN q1
                ELSE IF ~runsNow THEN Append(q1, LivesUpdater("default"))
                ELSE IF newLives <= 0
                     THEN <<SetGameState("defeat", "default"), SetLives(newLives, "default")>>
                     ELSE <<SetLives(newLives, "default")>>
          rearmed == runsNow /\ newLives > 0
          newBlocks == IF ballLaunched THEN KillBlocks(blocks, hit) ELSE blocks
          won == AllDead(newBlocks)
      IN  /\ HasDefault(pending) => stale < MaxStaleTicks
          /\ ballLaunched => ball.y - ball.radius <= (CANVAS_HEIGHT + MaxFall) * U
          /\ stale' = IF HasDefault(pending) THEN stale + 1 ELSE 0
          /\ mouseX' = mx
          /\ paddle' = p
          /\ IF ballLaunched
             THEN /\ ball' = IF rearmed THEN ResetBall(b5, p) ELSE b5
                  /\ ballLaunched' = ~rearmed
                  /\ blocks' = newBlocks
                  /\ particles' = AgeParticles(ps4)
                  /\ pending' = IF won THEN Append(q2, SetGameState("victory", "default")) ELSE q2
             ELSE /\ ball' = [ball EXCEPT !.x = p.x + p.width \div 2,
                                          !.y = p.y - BallOffsetY * U]
                  /\ ballLaunched' = FALSE
                  /\ blocks' = blocks
                  /\ particles' = AgeParticles(particles)
                  /\ pending' = IF won THEN Append(pending, SetGameState("victory", "default"))
                                ELSE pending
          /\ completeCalls' = IF won THEN Min(completeCalls + 1, MaxCompleteCalls)
                              ELSE completeCalls
          /\ op' = "tick"
          /\ UNCHANGED <<outside, mounted, framePending, levelId, particleEffects, gameState, score, lives, base>>

\* The frames in which the setLives call is reached (the ball's y after
\* integration is not changed by the bounces).
EagerChoices ==
    IF LoopRuns(gameState) /\ ballLaunched /\ OutOfBounds(Integrate(ball))
    THEN BOOLEAN ELSE {FALSE}

\* The pointer positions a frame may find in mouseXRef.  The pointer events
\* since the last frame coalesce into one value (the loop alone reads
\* mouseXRef).  The player moves the pointer while the game runs and the
\* ball rests on the paddle, and holds it still otherwise.
PointerXs ==
    IF gameState = "playing" /\ ~ballLaunched THEN {m * U : m \in MouseXs} ELSE {mouseX}

\* A frame: mouseXRef holds mx, keysRef holds some arrow keys, then the
\* animation frame callback runs.
Tick ==
    /\ framePending
    /\ \E mx \in PointerXs :
         \E p \in {UpdatePaddle(paddle, held, mx) : held \in KeySets} :
           \E eager \in EagerChoices :
             gameLoop(mx, p, eager)

----------------------------------------------------------------------------
(* Input handlers *)

\* The launch of handleKeyDown (key ' ') and of handleClick: the angle is
\* (Math.random() - 0.5) * PI / 3, the speed 4.
LaunchBall(b, deg) ==
    [b EXCEPT !.dx = SinU(deg) * LaunchSpeed, !.dy = -(CosU(deg) * LaunchSpeed)]

\* A space key that launches only while the status is 'playing'.
handleKeyDown_WhilePlaying ==
    \/ /\ mounted
       /\ gameState = "playing"
       /\ ~ballLaunched
       /\ \E deg \in LaunchAngles : ball' = LaunchBall(ball, deg)
       /\ ballLaunched' = TRUE
       /\ op' = "launch"
       /\ UNCHANGED <<outside, mounted, framePending, levelId, particleEffects, gameState, score, lives, base, pending,
                      blocks, paddle, mouseX, particles, stale, completeCalls>>
    \/ /\ mounted
       /\ (ballLaunched \/ gameState # "playing")
       /\ UNCHANGED vars

handleKeyDown ==
    \/ /\ mounted
       /\ ~ballLaunched
       /\ \E deg \in LaunchAngles : ball' = LaunchBall(ball, deg)
       /\ ballLaunched' = TRUE
       /\ op' = "launch"
       /\ UNCHANGED <<outside, mounted, framePending, levelId, particleEffects, gameState, score, lives, base, pending,
                      blocks, paddle, mouseX, particles, stale, completeCalls>>
    \/ /\ mounted
       /\ ballLaunched
       /\ UNCHANGED vars

handleClick ==
    \/ /\ mounted
       /\ ~ballLaunched
       /\ \E deg \in LaunchAngles : ball' = LaunchBall(ball, deg)
       /\ ballLaunched' = TRUE
       /\ op' = "launch"
       /\ UNCHANGED <<outside, mounted, framePending, levelId, particleEffects, gameState, score, lives, base, pending,
                      blocks, paddle, mouseX, particles, stale, completeCalls>>
    \/ /\ mounted
       /\ ballLaunched
       /\ UNCHANGED vars

----------------------------------------------------------------------------
(* Renders *)

\* The render React runs before a click event ends: sync-lane updates only.
SyncRender(q) == RenderResult(q, {"sync"}, base)

\* The render of the default-lane updates the game loop queued: every
\* queued update is processed, setLives updaters run.
Render ==
    /\ mounted
    /\ pending # <<>>
    /\ LET r == RenderResult(pending, {"default", "sync"}, base)
       IN  /\ gameState' = r.memo.gameState
           /\ score' = r.memo.score
           /\ lives' = r.memo.lives
           /\ base' = r.base
           /\ pending' = r.keep
           /\ ball' = IF r.reset THEN ResetBall(ball, paddle) ELSE ball
           /\ ballLaunched' = IF r.rearm THEN FALSE ELSE ballLaunched
    /\ stale' = 0
    /\ op' = "render"
    /\ UNCHANGED <<outside, mounted, framePending, levelId, particleEffects, blocks, paddle, mouseX, particles, completeCalls>>

----------------------------------------------------------------------------
(* Buttons *)

\* togglePause reads the gameState of the last render.
PauseUpdates ==
    IF gameState = "playing" THEN <<SetGameState("paused", "sync")>>
    ELSE IF gameState = "paused" THEN <<SetGameState("playing", "sync")>>
    ELSE <<>>

togglePause ==
    \/ /\ mounted
       /\ gameState \in {"playing", "paused"}
       /\ KeptSync(pending) < MaxKeptSync
       /\ LET r == SyncRender(pending \o PauseUpdates)
          IN  /\ gameState' = r.memo.gameState
              /\ score' = r.memo.score
              /\ lives' = r.memo.lives
              /\ base' = r.base
              /\ pending' = r.keep
       /\ op' = "pause"
       /\ UNCHANGED <<outside, mounted, framePending, levelId, particleEffects, blocks, ball, ballLaunched, paddle, mouseX,
                      particles, stale, completeCalls>>
    \/ /\ mounted
       /\ gameState \notin {"playing", "paused"}
       /\ op' = "pause"
       /\ UNCHANGED <<outside, mounted, framePending, levelId, particleEffects, gameState, score, lives, base, pending,
                      blocks, ball, ballLaunched, paddle, mouseX, particles, stale,
                      completeCalls>>

\* The updaters still queued were created with the ball object that
\* handleRestart replaces.
Orphaned(q) == [i \in 1..Len(q) |-> [q[i] EXCEPT !.orphan = TRUE]]

\* A restart that leaves the lives as they are.
RestartUpdates_KeepLives ==
    <<SetScore(0, "sync"), SetGameState("playing", "sync")>>

RestartUpdates ==
    <<SetScore(0, "sync"), SetLives(StartLives, "sync"), SetGameState("playing", "sync")>>

handleRestart ==
    /\ mounted
    /\ KeptSync(pending) < MaxKeptSync
    /\ LET r == SyncRender(Orphaned(pending) \o RestartUpdates)
       IN  /\ gameState' = r.memo.gameState
           /\ score' = r.memo.score
           /\ lives' = r.memo.lives
           /\ base' = r.base
           /\ pending' = r.keep
    /\ ballLaunched' = FALSE
    /\ particles' = <<>>
    /\ blocks' = generateBlocksForLevel(levelId)
    /\ ball' = BallOnPaddle(paddle)
    /\ completeCalls' = 0
    /\ op' = "restart"
    /\ UNCHANGED <<outside, mounted, framePending, levelId, particleEffects, paddle, mouseX, stale>>

----------------------------------------------------------------------------

Next ==
    \/ Tick
    \/ handleKeyDown
    \/ handleClick
    \/ Render
    \/ togglePause
    \/ handleRestart

Spec == Init /\ [][Next]_vars

----------------------------------------------------------------------------
(* Leaving the game screen *)

\* A cleanup that forgets to cancel the frame it requested.
cleanup_KeepFrame(pendingFrame) == pendingFrame

\* The cleanup of the game-loop effect: cancelAnimationFrame(animationFrameId)
\* on the id of the last requestAnimationFrame, the one callback pending.
cleanup(pendingFrame) == FALSE

\* The back button: App replaces GameScreen by the map screen; React
\* unmounts the component, runs the effects' cleanups (listeners removed,
\* frame cancelled) and drops the updates still queued on its hooks.
onBack ==
    /\ mounted
    /\ mounted' = FALSE
    /\ framePending' = cleanup(framePending)
    /\ op' = "back"
    /\ UNCHANGED <<outside, levelId, particleEffects, gameState, score, lives, base,
                   pending, blocks, ball, ballLaunched, paddle, mouseX, particles, stale,
                   completeCalls>>

NextOrBack == Next \/ onBack

SpecTeardown == Init /\ [][NextOrBack]_vars

----------------------------------------------------------------------------
(* Sessions that move the paddle *)

\* A frame of a session whose ball is never launched: the pointer is free
\* to move before every frame, over the whole width of the canvas, whatever
\* the status is.
PaddleTick ==
    /\ framePending
    /\ ~ballLaunched
    /\ \E mx \in {m * U : m \in PaddleMouseXs} :
         \E p \in {UpdatePaddle(paddle, held, mx) : held \in KeySets} :
           \E eager \in EagerChoices :
             gameLoop(mx, p, eager)

NextPaddle ==
    \/ PaddleTick
    \/ Render
    \/ togglePause
    \/ handleRestart

SpecPaddle == Init /\ [][NextPaddle]_vars

----------------------------------------------------------------------------
(* Sessions with and without particle effects *)

\* settings.particleEffects of the sessions compared.
ParticleChoices == BOOLEAN

\* The state after mounting, for either value of the setting and on the
\* grid of level 1.
InitParticles ==
    /\ levelId = 1
    /\ particleEffects \in ParticleChoices
    /\ gameState = "playing"
    /\ score = 0
    /\ lives = StartLives
    /\ base = [gameState |-> "playing", score |-> 0, lives |-> StartLives]
    /\ pending = <<>>
    /\ blocks = generateBlocksForLevel(levelId)
    /\ paddle = [x |-> PaddleStartX * U, y |-> PaddleY * U,
                 width |-> PaddleWidth * U, height |-> PaddleHeight * U]
    /\ ball = BallOnPaddle(paddle)
    /\ ballLaunched = FALSE
    /\ mouseX = MouseStartX * U
    /\ particles = <<>>
    /\ stale = 0
    /\ completeCalls = 0
    /\ mounted = TRUE
    /\ framePending = TRUE
    /\ op = "mount"
    /\ NoSource /\ NoCall /\ NoApp /\ NoLoop

SpecParticles == InitParticles /\ [][Next]_vars

----------------------------------------------------------------------------
(* The game-loop effect and its animation-frame requests                   *)
(*                                                                         *)
(* Of the session only the rendered gameState and the setting are kept: a  *)
(* render may bring any status and any setting (pause, resume, victory,    *)
(* defeat, restart, a new settings prop).  Each run of the effect has its  *)
(* own closure: the gameState it captured and its own animationFrameId.    *)
(* React runs the effect again (cleanup of the last run, then the body)    *)
(* when a render changed gameState or settings.particleEffects; for a      *)
(* render of default-lane updates that happens in a later task, which a    *)
(* display frame may precede.                                              *)

\* What a closure remembers of a request it made, where one that does not
\* assign the result of requestAnimationFrame inside gameLoop would keep
\* the id of its first request.
Rescheduled_FirstIdKept(closure, id) == closure

\* animationFrameId = requestAnimationFrame(gameLoop), inside gameLoop
Rescheduled(closure, id) == [closure EXCEPT !.animationFrameId = id]

\* The effect body: a new closure over the rendered gameState, and its
\* first requestAnimationFrame(gameLoop).
Scheduled(gs, id) == [gameState |-> gs, animationFrameId |-> id]

\* cancelAnimationFrame(animationFrameId) of the cleanup of run c
Cancelled(reqs, cl, c) == {r \in reqs : r.id # cl[c].animationFrameId}

InitLoop ==
    /\ mounted = TRUE
    /\ gameState = "playing"
    /\ particleEffects = TRUE
    /\ closures = <<Scheduled("playing", 1)>>
    /\ requested = {[id |-> 1, run |-> 1]}
    /\ nextId = 1
    /\ effectDue = FALSE
    /\ advances = 0
    /\ framePending = TRUE
    /\ op = "mount"
    /\ levelId = "none" /\ score = 0 /\ lives = 0 /\ base = "none" /\ pending = <<>>
    /\ blocks = <<>> /\ ball = "none" /\ ballLaunched = FALSE /\ paddle = "none"
    /\ mouseX = 0 /\ particles = <<>> /\ stale = 0 /\ completeCalls = 0
    /\ NoSource /\ NoCall /\ NoApp

\* The callbacks of one display frame, run in the order of their ids: each
\* gameLoop ends with a new request (guard branch and loop body alike), of
\* which its closure records the id.
RECURSIVE RunCallbacks(_, _, _, _)
RunCallbacks(todo, made, cl, n) ==
    IF todo = {} THEN [requested |-> made, closures |-> cl, nextId |-> n]
    ELSE \* the lowest id first
         LET r == CHOOSE q \in todo : \A o \in todo : q.id <= o.id
         IN  RunCallbacks(todo \ {r}, made \cup {[id |-> n + 1, run |-> r.run]},
                          [cl EXCEPT ![r.run] = Rescheduled(cl[r.run], n + 1)], n + 1)

\* A display frame: the browser runs every callback requested before it.
displayFrame ==
    /\ mounted
    /\ nextId + Cardinality(requested) <= MaxFrameIds
    /\ \E f \in {RunCallbacks(requested, {}, closures, nextId)} :
         /\ requested' = f.requested
         /\ closures' = f.closures
         /\ nextId' = f.nextId
    /\ advances' = Cardinality({r \in requested : LoopRuns(closures[r.run].gameState)})
    /\ framePending' = TRUE
    /\ op' = "frame"
    /\ UNCHANGED <<gameState, particleEffects, effectDue, mounted,
                   levelId, score, lives, base, pending, blocks, ball, ballLaunched, paddle,
                   mouseX, particles, stale, completeCalls, randomVars, generatorVars, appVars>>

\* A render commits: gameState and the settings prop as the updates and the
\* parent left them.  React runs effects still due before it renders.
commit ==
    /\ mounted
    /\ ~effectDue
    /\ \E gs \in {"playing", "paused", "victory", "defeat"}, pe \in BOOLEAN :
         /\ gameState' = gs
         /\ particleEffects' = pe
         /\ effectDue' = (gs # gameState \/ pe # particleEffects)
    /\ op' = "render"
    /\ UNCHANGED <<requested, closures, nextId, advances, mounted, framePending,
                   levelId, score, lives, base, pending, blocks, ball, ballLaunched, paddle,
                   mouseX, particles, stale, completeCalls, randomVars, generatorVars, appVars>>

\* The effect runs again: the cleanup of the last run cancels the request
\* its animationFrameId names, then the body schedules the new closure's loop.
runEffect ==
    /\ mounted
    /\ effectDue
    /\ nextId < MaxFrameIds
    /\ closures' = Append(closures, Scheduled(gameState, nextId + 1))
    /\ requested' = Cancelled(requested, closures, Len(closures))
                        \cup {[id |-> nextId + 1, run |-> Len(closures) + 1]}
    /\ nextId' = nextId + 1
    /\ effectDue' = FALSE
    /\ framePending' = TRUE
    /\ op' = "effect"
    /\ UNCHANGED <<gameState, particleEffects, advances, mounted,
                   levelId, score, lives, base, pending, blocks, ball, ballLaunched, paddle,
                   mouseX, particles, stale, completeCalls, randomVars, generatorVars, appVars>>

NextLoop ==
    \/ displayFrame
    \/ commit
    \/ runEffect

SpecLoop == InitLoop /\ [][NextLoop]_vars

----------------------------------------------------------------------------
(* The wall rule on its own *)

\* Positions (pixels) and velocities (pixels per frame) of the balls the
\* wall rule is applied to: next to each wall, in the corners, in the
\* middle and at the bottom edge; the velocity (3, -4) of the example in
\* the specification with its mirror images, and the launch velocities of
\* speed 4.
WallXs == {4, 10, 400, 790, 797}
WallYs == {6, 300, 595}
WallVelocities ==
    {<<3 * U, -4 * U>>, <<-3 * U, -4 * U>>, <<3 * U, 4 * U>>, <<-3 * U, 4 * U>>,
     <<0, -4 * U>>, <<100, -240>>, <<-100, 240>>}

InitWall ==
    /\ \E x \in WallXs, y \in WallYs, v \in WallVelocities :
         ball = [x |-> x * U, y |-> y * U, dx |-> v[1], dy |-> v[2], radius |-> BallRadius * U]
    /\ ballLaunched = TRUE
    /\ op = "ball"
    /\ levelId = "none" /\ particleEffects = TRUE /\ gameState = "none" /\ score = 0
    /\ lives = 0 /\ base = "none" /\ pending = <<>> /\ blocks = <<>> /\ paddle = "none"
    /\ mouseX = 0 /\ particles = <<>> /\ stale = 0 /\ completeCalls = 0
    /\ mounted = FALSE /\ framePending = FALSE
    /\ NoSource /\ NoCall /\ NoApp /\ NoLoop

\* ball.x += ball.dx; ball.y += ball.dy; "Wall collisions" -- and nothing
\* else of the frame, for as long as the ball is above the bottom edge.
wallCollisions ==
    /\ op \in {"ball", "wall"}
    /\ ~OutOfBounds(ball)
    /\ ball' = WallBounce(Integrate(ball))
    /\ op' = "wall"
    /\ UNCHANGED <<outside, levelId, particleEffects, gameState, score, lives, base, pending,
                   blocks, ballLaunched, paddle, mouseX, particles, stale, completeCalls,
                   mounted, framePending>>

SpecWall == InitWall /\ [][wallCollisions]_vars

----------------------------------------------------------------------------
(* Mounting GameScreen                                                     *)
(*                                                                         *)
(* The first render leaves the hooks and the refs with the initial values  *)
(* of useState and useRef; React then runs the effects of the component    *)
(* in the order of their declaration, in one synchronous pass: no event    *)
(* handler runs in between, and an animation-frame callback can only run   *)
(* once it has been requested.  op is the effect that ran last.            *)

\* A mount whose first effect installs nothing.
InitializeBlocks_Skipped(level) == <<>>

\* "Initialize blocks for level": what the effect assigns to blocksRef.current
InitializeBlocks(level) == generateBlocksForLevel(level)

\* The levels mounted: the grid of level 1, the ring of eight blocks of
\* level 2, which a session can clear, and a level without blocks.
MountLevelIds == {1, 2, 7}

\* After the first render: useState and useRef initial values, no effect run.
InitMount ==
    /\ levelId \in MountLevelIds
    /\ particleEffects \in ParticleSettings
    /\ gameState = "playing"
    /\ score = 0
    /\ lives = StartLives
    /\ base = [gameState |-> "playing", score |-> 0, lives |-> StartLives]
    /\ pending = <<>>
    /\ blocks = <<>>
    /\ ball = "none"
    /\ ballLaunched = FALSE
    /\ paddle = [x |-> PaddleStartX * U, y |-> PaddleY * U,
                 width |-> PaddleWidth * U, height |-> PaddleHeight * U]
    /\ mouseX = MouseStartX * U
    /\ particles = <<>>
    /\ stale = 0
    /\ completeCalls = 0
    /\ mounted = TRUE
    /\ framePending = FALSE
    /\ op = "firstRender"
    /\ NoSource /\ NoCall /\ NoApp /\ NoLoop

\* useEffect "Initialize blocks for level"
initializeBlocks ==
    /\ op = "firstRender"
    /\ blocks' = InitializeBlocks(levelId)
    /\ op' = "initializeBlocks"
    /\ UNCHANGED <<outside, levelId, particleEffects, gameState, score, lives, base, pending,
                   ball, ballLaunched, paddle, mouseX, particles, stale, completeCalls,
                   mounted, framePending>>

\* useEffect "Initialize ball on paddle"
initializeBall ==
    /\ op = "initializeBlocks"
    /\ ball' = BallOnPaddle(paddle)
    /\ ballLaunched' = FALSE
    /\ op' = "initializeBall"
    /\ UNCHANGED <<outside, levelId, particleEffects, gameState, score, lives, base, pending,
                   blocks, paddle, mouseX, particles, stale, completeCalls,
                   mounted, framePending>>

\* useEffect "Keyboard controls": the window listeners are added
keyboardControls ==
    /\ op = "initializeBall"
    /\ op' = "keyboardControls"
    /\ UNCHANGED <<outside, sessionVars>>

\* useEffect "Mouse controls": the canvas listeners are added
mouseControls ==
    /\ op = "keyboardControls"
    /\ op' = "mouseControls"
    /\ UNCHANGED <<outside, sessionVars>>

\* useEffect "Game loop": the first requestAnimationFrame(gameLoop)
startGameLoop ==
    /\ op = "mouseControls"
    /\ framePending' = TRUE
    /\ op' = "mount"
    /\ UNCHANGED <<outside, levelId, particleEffects, gameState, score, lives, base, pending,
                   blocks, ball, ballLaunched, paddle, mouseX, particles, stale,
                   completeCalls, mounted>>

\* The effects of the mount have all run.
Mounted ==
    op \notin {"firstRender", "initializeBlocks", "initializeBall", "keyboardControls",
               "mouseControls"}

\* A frame runs as soon as one is requested; the handlers run once the
\* effects have run.
NextMount ==
    \/ initializeBlocks
    \/ initializeBall
    \/ keyboardControls
    \/ mouseControls
    \/ startGameLoop
    \/ Tick
    \/ (Mounted /\ handleKeyDown)
    \/ (Mounted /\ handleClick)
    \/ (Mounted /\ Render)
    \/ (Mounted /\ togglePause)
    \/ (Mounted /\ handleRestart)

SpecMount == InitMount /\ [][NextMount]_vars

----------------------------------------------------------------------------
(* App and the map-selection screen (App.tsx, MapsScreen.tsx)              *)
(*                                                                         *)
(* The play itself is left out: of a session on the game screen only its   *)
(* level, its calls of onLevelComplete and the unlockedLevels its game     *)
(* loop has captured are kept.  A hook update of App is taken as rendered  *)
(* at once.  devLockStates stays empty (no lock is overridden).            *)

Includes(list, x) == \E i \in 1..Len(list) : list[i] = x

InitApp ==
    /\ currentScreen = "menu"
    /\ selectedMapId = 1
    /\ unlockedLevels = <<1>>
    /\ captured = <<>>
    /\ developerMode = FALSE
    /\ instantWinMode = FALSE
    /\ op = "start"
    /\ NoSession /\ NoSource /\ NoCall /\ NoLoop

\* MainMenu: onNavigate('maps' | 'leaderboard' | 'settings').  A screen
\* that mounts starts its hooks from their initial values.
onNavigate ==
    /\ currentScreen = "menu"
    /\ currentScreen' \in {"maps", "leaderboard", "settings"}
    /\ op' = "navigate"
    /\ UNCHANGED <<selectedMapId, unlockedLevels, captured, developerMode, instantWinMode,
                   sessionVars, randomVars, generatorVars, loopVars>>

\* onBack of MapsScreen, LeaderboardScreen and SettingsScreen.
onBackToMenu ==
    /\ currentScreen \in {"maps", "leaderboard", "settings"}
    /\ currentScreen' = "menu"
    /\ developerMode' = FALSE
    /\ instantWinMode' = FALSE
    /\ op' = "menu"
    /\ UNCHANGED <<selectedMapId, unlockedLevels, captured,
                   sessionVars, randomVars, generatorVars, loopVars>>

toggleDeveloperMode ==
    /\ currentScreen = "maps"
    /\ developerMode' = ~developerMode
    /\ op' = "developer"
    /\ UNCHANGED <<currentScreen, selectedMapId, unlockedLevels, captured, instantWinMode,
                   sessionVars, randomVars, generatorVars, loopVars>>

\* The button is rendered in developer mode only.
toggleInstantWinMode ==
    /\ currentScreen = "maps"
    /\ developerMode
    /\ instantWinMode' = ~instantWinMode
    /\ op' = "instantWin"
    /\ UNCHANGED <<currentScreen, selectedMapId, unlockedLevels, captured, developerMode,
                   sessionVars, randomVars, generatorVars, loopVars>>

\* updatedMaps: locked, without an entry of devLockStates for the map.
locked(mapId) == ~Includes(unlockedLevels, mapId)

\* An unlock that forgets the levels unlocked before.
Unlocked_Alone(list, nextLevel) == <<nextLevel>>

\* [...unlockedLevels, nextLevel]
Unlocked(list, nextLevel) == Append(list, nextLevel)

\* handleSelectMap, and the mount of GameScreen it leads to: the game loop
\* captures the handleLevelComplete of this render.
handleSelectMap(mapId) ==
    /\ selectedMapId' = mapId
    /\ currentScreen' = "game"
    /\ levelId' = mapId
    /\ mounted' = TRUE
    /\ framePending' = TRUE
    /\ completeCalls' = 0
    /\ captured' = unlockedLevels
    /\ developerMode' = FALSE
    /\ instantWinMode' = FALSE
    /\ UNCHANGED <<unlockedLevels, particleEffects, gameState, score, lives, base, pending,
                   blocks, ball, ballLaunched, paddle, mouseX, particles, stale,
                   randomVars, generatorVars, loopVars>>

\* A click that changes nothing in App.
NoEffect ==
    UNCHANGED <<appVars, sessionVars, randomVars, generatorVars, loopVars>>

\* onClick of a curated map card.
clickCuratedMap ==
    /\ currentScreen = "maps"
    /\ \E mapId \in 1..6 :
         IF developerMode /\ instantWinMode
         THEN NoEffect
         ELSE IF ~locked(mapId)
              THEN handleSelectMap(mapId)
              ELSE NoEffect
    /\ op' = "curated"

\* onClick of a procedural level card.
clickProceduralLevel ==
    /\ currentScreen = "maps"
    /\ \E picked \in ProceduralPicks :
         IF developerMode /\ instantWinMode
         THEN NoEffect
         ELSE handleSelectMap(picked)
    /\ op' = "procedural"

\* The game loop's victory check calls onLevelComplete(levelId): the
\* handleLevelComplete it captured.
handleLevelComplete ==
    /\ currentScreen = "game"
    /\ completeCalls < MaxCompleteCalls
    /\ completeCalls' = completeCalls + 1
    /\ LET nextLevel == levelId + 1
       IN  unlockedLevels' = IF ~Includes(captured, nextLevel)
                             THEN Unlocked(captured, nextLevel)
                             ELSE unlockedLevels
    /\ op' = "complete"
    /\ UNCHANGED <<currentScreen, selectedMapId, captured, developerMode, instantWinMode,
                   levelId, particleEffects, gameState, score, lives, base, pending,
                   blocks, ball, ballLaunched, paddle, mouseX, particles, stale,
                   mounted, framePending, randomVars, generatorVars, loopVars>>

\* The game-loop effect runs again (its gameState changed) and captures the
\* handleLevelComplete of the current render.
effectRerun ==
    /\ currentScreen = "game"
    /\ captured # unlockedLevels
    /\ captured' = unlockedLevels
    /\ op' = "effect"
    /\ UNCHANGED <<currentScreen, selectedMapId, unlockedLevels, developerMode,
                   instantWinMode, sessionVars, randomVars, generatorVars, loopVars>>

\* onBack of GameScreen: back to the map-selection screen.
onBackToMaps ==
    /\ currentScreen = "game"
    /\ currentScreen' = "maps"
    /\ mounted' = FALSE
    /\ framePending' = cleanup(framePending)
    /\ op' = "back"
    /\ UNCHANGED <<selectedMapId, unlockedLevels, captured, developerMode, instantWinMode,
                   levelId, particleEffects, gameState, score, lives, base, pending,
                   blocks, ball, ballLaunched, paddle, mouseX, particles, stale,
                   completeCalls, randomVars, generatorVars, loopVars>>

NextApp ==
    \/ onNavigate
    \/ onBackToMenu
    \/ toggleDeveloperMode
    \/ toggleInstantWinMode
    \/ clickCuratedMap
    \/ clickProceduralLevel
    \/ handleLevelComplete
    \/ effectRerun
    \/ onBackToMaps

SpecApp == InitApp /\ [][NextApp]_vars

----------------------------------------------------------------------------
(* Properties *)

DeadBlocks == {i \in 1..Len(blocks) : ~blocks[i].alive}

VictoryQueued ==
    \E i \in 1..Len(pending) : pending[i].hook = "gameState" /\ pending[i].st = "victory"

C2_CompleteOncePerSession ==
    /\ completeCalls <= 1
    /\ gameState = "victory" => completeCalls = 1

\* C3 as stated: between frames the status is defeat if and only if lives
\* is 0.
C3_DefeatIffNoLives == (gameState = "defeat") <=> (lives = 0)

\* C4 as stated: lives is 3 after mounting and after every restart and
\* stays within 0..3 whatever frames and clicks follow.
C4_LivesInRange ==
    /\ lives \in 0..StartLives
    /\ op \in {"mount", "restart"} => lives = StartLives

\* C5 as stated: a ball lost with more than one life left costs exactly one
\* life and leaves the status as it is, also when further frames run before
\* the update is applied.
C5_LossCostsOneLife ==
    [][(lives > 1 /\ lives' < lives) => (lives' = lives - 1 /\ gameState' # "defeat")]_vars

C7_DeadStayDeadScoreGrows ==
    [][op' # "restart" =>
         ( /\ score' >= score
           /\ Len(blocks') = Len(blocks)
           /\ \A i \in 1..Len(blocks) : (~blocks[i].alive => ~blocks'[i].alive) )
      ]_vars

\* Two blocks are dead and their points are in the score, the game going on.
C7_TwoBlocksDown ==
    /\ Cardinality(DeadBlocks) >= 2
    /\ score >= 2 * BlockPoints
    /\ op = "tick"
    /\ gameState = "playing"

\* C8 as stated: with no update queued the score is 100 points for each
\* dead block, and nothing else.
C8_HundredPerBlock == pending = <<>> => score = 100 * Cardinality(DeadBlocks)

(* C9: a frame that runs while the status is paused changes none of        *)
(* paddle, ball, launch flag, blocks, particles, score, lives and status.  *)
C9_PausedFrameNoOp ==
    [][(gameState = "paused" /\ op' = "tick") =>
         UNCHANGED <<paddle, ball, ballLaunched, blocks, particles, score, lives,
                     gameState, pending>>]_vars

\* A frame has run while paused with the ball in flight and particles alive.
C9_FrameWhilePaused ==
    gameState = "paused" /\ op = "tick" /\ ballLaunched /\ particles # <<>>

(* C10: right after handleRestart the score is 0, lives is 3, the status   *)
(* is playing, there is no particle, the blocks are those of the level,    *)
(* all alive, and the ball rests on the paddle, not launched.  This is the *)
(* state the next frame finds.                                             *)
C10_RestartResetsAll ==
    op = "restart" =>
      /\ score = 0
      /\ lives = StartLives
      /\ gameState = "playing"
      /\ particles = <<>>
      /\ Len(blocks) = Len(generateBlocksForLevel(levelId))
      /\ \A i \in 1..Len(blocks) :
            /\ blocks[i].alive
            /\ blocks[i] = generateBlocksForLevel(levelId)[i]
      /\ ~ballLaunched
      /\ ball.dx = 0 /\ ball.dy = 0
      /\ ball.x = paddle.x + paddle.width \div 2
      /\ ball.y = paddle.y - BallOffsetY * U

\* Restart was clicked while the update of a lost life was still queued.
C10_RestartDuringLifeLoss ==
    /\ op = "restart"
    /\ \E i \in 1..Len(pending) : pending[i].kind = "updater" /\ pending[i].orphan

C14_Lcg(s) ==
    LET low == s[1] * 26125 + 62303
    IN  <<low % 65536,
          (s[1] * 25 + s[2] * 26125 + 15470 + (low \div 65536)) % 65536>>

\* C14: on every call of random() the state becomes (previous state *
\* 1664525 + 1013904223) mod 2^32, a state is always within 0..2^32-1, and
\* the value returned is that state over 2^32, hence at least 0 and below 1.
C14_RandomIsExactLcg ==
    /\ [](/\ Len(state) = 2
          /\ \A i \in 1..2 : state[i] \in 0..65535)
    /\ [][calls' = calls + 1 =>
            (/\ state' = C14_Lcg(state)
             /\ value'.num = state'
             /\ value'.den = <<0, 0, 1>>)
       ]_vars

\* the source seeded with 2^32 - 1 has been called several times
C14_CalledFromLargestSeed ==
    seed = <<65535, 65535>> /\ calls = 3 /\ op = "random" /\ value.num = state

C13_BlocksInsidePlayfield ==
    /\ \A i \in 1..Len(genBlocks) :
           /\ genBlocks[i].x >= 50 * 65
           /\ genBlocks[i].x + genBlocks[i].width <= 750 * 65
           /\ genBlocks[i].y >= 50 * 65
           /\ genBlocks[i].y + genBlocks[i].height <= 420 * 65
    /\ Len(genBlocks) <= genCandidates

\* level 6 generated: 65 positions computed, 8 of them dropped
C13_PositionsDropped ==
    genCalls # <<>> /\ genLevel = 6 /\ genCandidates = 65 /\ Len(genBlocks) = 57

\* C15: for level 1 the generator returns 24 blocks, all alive, row by row
\* of a grid of 4 rows and 6 columns: the block of row r and column c is at
\* x = 50 + 65c, y = 50 + 30r and is 60 wide and 25 high; no two of the
\* blocks overlap.
C15_Level1Grid ==
    (genCalls # <<>> /\ genLevel = 1) =>
        /\ Len(genBlocks) = 24
        /\ \A r \in 0..3 : \A c \in 0..5 :
               LET b == genBlocks[6 * r + c + 1]
               IN  /\ b.alive
                   /\ b.x = (50 + 65 * c) * 65
                   /\ b.y = (50 + 30 * r) * 65
                   /\ b.width = 60 * 65
                   /\ b.height = 25 * 65
        /\ \A i, j \in 1..Len(genBlocks) :
               i # j =>
                   \/ genBlocks[i].x + genBlocks[i].width <= genBlocks[j].x
                   \/ genBlocks[j].x + genBlocks[j].width <= genBlocks[i].x
                   \/ genBlocks[i].y + genBlocks[i].height <= genBlocks[j].y
                   \/ genBlocks[j].y + genBlocks[j].height <= genBlocks[i].y

\* level 1 generated as the second call, after a level of the random kind
C15_Level1Generated ==
    /\ Len(genCalls) = 2 /\ genCalls[1].level = 100 /\ genLevel = 1
    /\ Len(genBlocks) = 24 /\ genBlocks[24].x = 375 * 65 /\ genBlocks[24].y = 140 * 65

\* C18: for a level from 100 on the generator lays out
\* 6 + floor(((level - 100) mod 12) / 2) clusters, which is between 6 and 11,
\* and two levels that are 12 apart get the same number of clusters.
C18_ClusterCount ==
    /\ (genCalls # <<>> /\ genLevel >= 100) =>
           /\ genClusters = 6 + (((genLevel - 100) % 12) \div 2)
           /\ genClusters \in 6..11
    /\ \A i, j \in 1..Len(genCalls) :
           (genCalls[i].level >= 100 /\ genCalls[j].level = genCalls[i].level + 12) =>
               genCalls[i].clusters = genCalls[j].clusters

\* level 101 and level 113 generated one after the other, then level 111
\* with the most clusters
C18_TwelveApart ==
    /\ Len(genCalls) = 3
    /\ genCalls[1].level = 101 /\ genCalls[2].level = 113 /\ genLevel = 111
    /\ genCalls[1].clusters = 6 /\ genClusters = 11

\* C19: for each of the levels 1..6 the generator returns as many blocks
\* as the map-selection screen shows for that map: 24, 8, 36, 32, 64, 80.
C19_AdvertisedBlockCount ==
    (genCalls # <<>> /\ genLevel \in 1..6) => Len(genBlocks) = curatedMaps[genLevel].blocks

(* C16, as the code has it: a level below 100 outside 1..6 has no blocks    *)
(* and its score stays 0; every frame that runs the loop body in status    *)
(* playing asks for the status victory and reports the level complete; a   *)
(* render that finds nothing queued but such requests makes the status     *)
(* victory and leaves the lives as they were.                              *)
C16_EmptyLevelWonOnRender ==
    /\ []((levelId < 100 /\ levelId \notin 1..6) => (blocks = <<>> /\ score = 0))
    /\ [][(levelId < 100 /\ levelId \notin 1..6 /\ gameState = "playing" /\ op' = "tick") =>
            (VictoryQueued' /\ completeCalls' >= 1)
       ]_vars
    /\ [][(/\ levelId < 100 /\ levelId \notin 1..6
           /\ gameState = "playing" /\ VictoryQueued
           /\ \A i \in 1..Len(pending) :
                  pending[i].hook = "gameState" /\ pending[i].lane = "default"
           /\ op' = "render") =>
            (gameState' = "victory" /\ score' = 0 /\ lives' = lives)
       ]_vars

\* C16 as stated: a level below 100 outside 1..6 has no blocks, and a frame
\* run in status playing leaves the status victory with score 0 and 3 lives.
C16_FirstFrameWins ==
    /\ []((levelId < 100 /\ levelId \notin 1..6) => blocks = <<>>)
    /\ [][(levelId < 100 /\ levelId \notin 1..6 /\ gameState = "playing" /\ op' = "tick") =>
            (gameState' = "victory" /\ score' = 0 /\ lives' = 3)
       ]_vars

\* level 7 won at the render that follows its first frame
C16_EmptyLevelWon ==
    /\ levelId = 7 /\ blocks = <<>> /\ gameState = "victory" /\ op = "render"
    /\ score = 0 /\ lives = 3 /\ completeCalls = 1 /\ ~ballLaunched

\* The curated levels (1..6) that unlockedLevels holds.
C17_UnlockedCurated == {k \in 1..6 : \E i \in 1..Len(unlockedLevels) : unlockedLevels[i] = k}

\* C17: starting from level 1 alone and with no lock overridden, the
\* unlocked levels among 1..6 are always 1..m for some m >= 1; a level k + 1
\* of 1..6 becomes unlocked only by a completion of level k; the game screen
\* is never entered on a locked level of 1..6; and a level once unlocked
\* stays unlocked.
C17_SequentialUnlock ==
    /\ [](\E m \in 1..6 : C17_UnlockedCurated = 1..m)
    /\ [][\A k \in 1..6 :
            (k \notin C17_UnlockedCurated /\ k \in C17_UnlockedCurated') =>
                (op' = "complete" /\ currentScreen = "game" /\ levelId = k - 1)
       ]_vars
    /\ [][(currentScreen # "game" /\ currentScreen' = "game" /\ selectedMapId' \in 1..6) =>
            selectedMapId' \in C17_UnlockedCurated
       ]_vars
    /\ [][\A i \in 1..Len(unlockedLevels) :
            \E j \in 1..Len(unlockedLevels') : unlockedLevels'[j] = unlockedLevels[i]
       ]_vars

\* level 3 is being played after levels 1 and 2 were completed
C17_ThirdLevelEntered ==
    /\ currentScreen = "game" /\ levelId = 3 /\ selectedMapId = 3
    /\ C17_UnlockedCurated = {1, 2, 3}
    /\ Len(unlockedLevels) = 3

\* C20: after every frame that runs in status 'playing', paddle.x is the
\* pointer target mouseX - width/2 clamped to [0, 680], whatever arrow keys
\* are held; in every state paddle.x is within [0, 680] and paddle.y is 560.
C20_PaddleFollowsPointer ==
    /\ [](paddle.x >= 0 /\ paddle.x <= (CANVAS_WIDTH - PaddleWidth) * U /\ paddle.y = 560 * U)
    /\ [][(gameState = "playing" /\ op' = "tick") =>
            paddle'.x = Max(0, Min((CANVAS_WIDTH - PaddleWidth) * U,
                                   mouseX' - (PaddleWidth * U) \div 2))
       ]_vars

\* witness of C20: a frame in status 'playing' found the pointer at the right
\* edge of the canvas and left the paddle at 680
C20_ClampedAtRightEdge ==
    /\ op = "tick" /\ gameState = "playing"
    /\ mouseX = CANVAS_WIDTH * U
    /\ paddle.x = 680 * U

\* C21: whenever the ball is not launched its velocity is (0, 0), and after
\* every frame that runs in status 'playing' with the ball not launched the
\* ball is at (paddle.x + paddle.width / 2, paddle.y - 10) of the paddle of
\* that frame.
C21_RestingBallSlaved ==
    /\ [](~ballLaunched => (ball.dx = 0 /\ ball.dy = 0))
    /\ [][(gameState = "playing" /\ ~ballLaunched /\ op' = "tick") =>
            (/\ ball'.x = paddle'.x + paddle'.width \div 2
             /\ ball'.y = paddle'.y - 10 * U)
       ]_vars

\* C22: a launch trigger acts on a resting ball only: it sets the launched
\* flag and an upward velocity and leaves the position alone; outside frames,
\* renders and restarts nothing changes a launched ball; and the launched
\* flag goes back to false only on restart or when the ball in play has left
\* the canvas at the bottom and lives remain.
C22_LaunchedUntilLifeLost ==
    /\ [][op' = "launch" =>
            (/\ ~ballLaunched /\ ballLaunched'
             /\ ball'.dy < 0
             /\ ball'.x = ball.x /\ ball'.y = ball.y)
       ]_vars
    /\ [][(ballLaunched /\ op' \notin {"tick", "render", "restart"}) =>
            (ball' = ball /\ ballLaunched')
       ]_vars
    /\ [][(ballLaunched /\ ~ballLaunched') =>
            (\/ op' = "restart"
             \/ op' = "tick" /\ OutOfBounds(Integrate(ball)) /\ lives > 1
             \/ op' = "render" /\ OutOfBounds(ball) /\ lives' > 0)
       ]_vars

\* C23: the wall rule is a sign flip.  With the ball at its position after
\* integration: dx is negated when ball.x - radius <= 0 or ball.x + radius
\* >= 800 and kept otherwise; dy is negated when ball.y - radius <= 0 and
\* kept otherwise, the bottom edge included; the position is not touched.
C23_WallBounceIsSignFlip ==
    [][op' = "wall" =>
        (/\ ball'.x = ball.x + ball.dx
         /\ ball'.y = ball.y + ball.dy
         /\ ball'.dx = IF ball'.x - 8 * U <= 0 \/ ball'.x + 8 * U >= 800 * U
                        THEN -ball.dx ELSE ball.dx
         /\ ball'.dy = IF ball'.y - 8 * U <= 0 THEN -ball.dy ELSE ball.dy
         /\ ball'.radius = 8 * U)
    ]_vars

\* witness of C23: the example of the specification, a ball of velocity
\* (3, -4) within reach of the left wall, now of velocity (-3, -4)
C23_LeftWallExample ==
    /\ op = "wall"
    /\ ball.x - ball.radius <= 0
    /\ ball.y - ball.radius > 0
    /\ ball.dx = -3 * U /\ ball.dy = -4 * U
    /\ ball.x = 7 * U

\* The setScore((s) => s + 10) updates waiting in a queue.
C24_Adds(q) == Len(SelectSeq(q, LAMBDA u : u.hook = "score" /\ u.kind = "add"))

\* C24: in a frame that runs in status 'playing' with the ball launched, let
\* k be the number of alive blocks the bounding box of the ball overlaps at
\* its position after integration.  Each of these k blocks is dead after the
\* frame and every other block is as it was; the frame requests k score
\* increments of the per-block amount; and when k > 0 the ball leaves the
\* frame with the dx the wall rule left it and with that dy negated k times.
C24_EveryOverlappingBlockHit ==
    [][(gameState = "playing" /\ ballLaunched /\ op' = "tick") =>
        LET x == ball.x + ball.dx
            y == ball.y + ball.dy
            hit == {i \in 1..Len(blocks) :
                      /\ blocks[i].alive
                      /\ x + 8 * U >= blocks[i].x
                      /\ x - 8 * U <= blocks[i].x + blocks[i].width
                      /\ y + 8 * U >= blocks[i].y
                      /\ y - 8 * U <= blocks[i].y + blocks[i].height}
            k == Cardinality(hit)
            walled == WallBounce(Integrate(ball))
        IN  /\ Len(blocks') = Len(blocks)
            /\ \A i \in 1..Len(blocks) :
                   blocks'[i] = IF i \in hit THEN [blocks[i] EXCEPT !.alive = FALSE]
                                ELSE blocks[i]
            /\ C24_Adds(pending') = C24_Adds(pending) + k
            /\ \A i \in 1..Len(pending') :
                   (pending'[i].hook = "score" /\ pending'[i].kind = "add") =>
                       pending'[i].n = BlockPoints
            /\ (k > 0 /\ ~HitsPaddle(walled, paddle')) =>
                   (/\ ball'.x = x /\ ball'.y = y
                    /\ ball'.dx = walled.dx
                    /\ ball'.dy = IF k % 2 = 1 THEN -walled.dy ELSE walled.dy)
    ]_vars

\* witness of C24: one frame has hit two blocks at once, with nothing queued
\* before it
C24_TwoBlocksInOneFrame ==
    /\ op = "tick" /\ gameState = "playing" /\ ballLaunched
    /\ stale = 0
    /\ C24_Adds(pending) = 2
    /\ Cardinality(DeadBlocks) >= 2

\* What a frame of the loop body does to everything but the particles,
\* written without createParticles and without a read of particles or of
\* settings.particleEffects: the ball, the launched flag, the blocks and the
\* updates queued.  eager: the setLives updater ran inside the call.
C25_FrameWithoutParticles(eager) ==
    \E p \in {paddle'} :
    \E walled \in {WallBounce(Integrate(ball))} :
    \E b4 \in {IF HitsPaddle(walled, p) THEN PaddleBounce(walled, p) ELSE walled} :
    \E hit \in {HitBlocks(blocks, b4)} :
    \E b5 \in {BlockBounce(b4, hit)} :
    \E q1 \in {pending \o ScoreUpdates(hit)} :
    \E now \in {OutOfBounds(b5) /\ eager /\ q1 = <<>>} :
    \E q2 \in {IF ~OutOfBounds(b5) THEN q1
                ELSE IF ~now THEN Append(q1, LivesUpdater("default"))
                ELSE IF lives - 1 <= 0
                     THEN <<SetGameState("defeat", "default"), SetLives(lives - 1, "default")>>
                     ELSE <<SetLives(lives - 1, "default")>>} :
    \E after \in {IF ballLaunched THEN KillBlocks(blocks, hit) ELSE blocks} :
    \E queued \in {IF ballLaunched THEN q2 ELSE pending} :
        /\ ball' = IF ~ballLaunched
                   THEN [ball EXCEPT !.x = p.x + p.width \div 2, !.y = p.y - 10 * U]
                   ELSE IF now /\ lives - 1 > 0 THEN ResetBall(b5, p) ELSE b5
        /\ ballLaunched' = (ballLaunched /\ ~(now /\ lives - 1 > 0))
        /\ blocks' = after
        /\ pending' = IF \A j \in 1..Len(after) : ~after[j].alive
                      THEN Append(queued, SetGameState("victory", "default"))
                      ELSE queued

\* C25: with particle effects disabled no step adds a particle, so the
\* particle list stays as short as it was and changes only by the removal
\* of particles whose life is used up; and whatever the setting, a frame
\* does to ball, launched flag, blocks and queued score, lives and status
\* updates what the loop body without particles does, while the other
\* steps read neither the setting nor the particles.
C25_ParticlesOffNoSpawn ==
    /\ [][~particleEffects =>
            (/\ Len(particles') <= Len(particles)
             /\ \A i \in 1..Len(particles') :
                    \E j \in 1..Len(particles) :
                       /\ particles'[i].color = particles[j].color
                       /\ particles'[i].life > 0)
       ]_vars
    /\ [](~particleEffects => particles = <<>>)
    /\ [][(gameState = "playing" /\ op' = "tick") =>
            (/\ \E eager \in BOOLEAN : C25_FrameWithoutParticles(eager)
             /\ UNCHANGED <<score, lives, gameState, particleEffects>>)
       ]_vars

\* witness of C25: with particle effects disabled a frame has destroyed a
\* block and no particle exists
C25_BlockHitWithoutParticles ==
    /\ ~particleEffects /\ op = "tick" /\ gameState = "playing"
    /\ Cardinality(DeadBlocks) >= 1
    /\ C24_Adds(pending) >= 1
    /\ particles = <<>>

\* C26: while the game screen is mounted exactly one animation-frame request
\* is pending, the one the newest run of the game-loop effect made last; a
\* run of the effect leaves no request of an earlier run; and no display
\* frame runs the loop body more than once.
C26_OneLoopPending ==
    /\ [](mounted =>
            (/\ Cardinality(requested) = 1
             /\ \A r \in requested :
                    /\ r.run = Len(closures)
                    /\ r.id = closures[r.run].animationFrameId))
    /\ [](advances <= 1)
    /\ [][op' = "effect" => \A r \in requested' : r \notin requested]_vars

\* witness of C26: the effect has run four times (say pause, resume, victory,
\* restart), display frames in between, and the newest loop has just run
\* its body
C26_FourthLoopRunning ==
    /\ mounted /\ op = "frame" /\ gameState = "playing"
    /\ Len(closures) = 4
    /\ advances = 1
    /\ nextId >= 6

\* C27 as stated: in every state of a session the score is the per-block
\* increment times the number of dead blocks of the current block set.
C27_ScoreCountsDeadBlocks == score = BlockPoints * Cardinality(DeadBlocks)

\* C27, as the code has it: the score React shows once it has applied the
\* updates queued is the increment times the number of dead blocks; so the
\* rendered score is that product whenever no score update is queued, a
\* state of status victory has score = increment times the number of
\* blocks, and a restart leaves score 0 and no block dead.
C27_ScoreCountsDeadBlocksOnceApplied ==
    /\ [](RenderResult(pending, {"default", "sync"}, base).memo.score
              = BlockPoints * Cardinality(DeadBlocks))
    /\ []((\A i \in 1..Len(pending) : pending[i].hook # "score") =>
              score = BlockPoints * Cardinality(DeadBlocks))
    /\ [](gameState = "victory" =>
              (score = BlockPoints * Len(blocks) /\ Cardinality(DeadBlocks) = Len(blocks)))
    /\ [][op' = "restart" => (score' = 0 /\ DeadBlocks' = {})]_vars

\* witness of C27: React has applied the increments of a frame that hit two
\* blocks; nothing is queued
C27_TwoBlocksScored ==
    /\ op = "render" /\ gameState = "playing" /\ pending = <<>>
    /\ Cardinality(DeadBlocks) = 2
    /\ score = 20

\* A launched ball that has not moved yet: it is where the resting ball was.
C28_Waiting ==
    /\ ballLaunched
    /\ ball.x = paddle.x + paddle.width \div 2
    /\ ball.y = paddle.y - 10 * U
    /\ ball.dy < 0

C29_Queued == SubSeq(pending', Len(pending) + 1, Len(pending'))

\* The frame called setGameState('victory').
C29_VictorySignalled ==
    \E i \in 1..Len(C29_Queued) :
        C29_Queued[i].hook = "gameState" /\ C29_Queued[i].st = "victory"

\* The frame called setLives.
C29_LifeLost == \E i \in 1..Len(C29_Queued) : C29_Queued[i].hook = "lives"

\* The frame's setLives brings lives to 0: setGameState('defeat') is queued, or
\* the updater the frame queued will call it when React renders.
C29_DefeatSignalled ==
    \/ \E i \in 1..Len(C29_Queued) :
          C29_Queued[i].hook = "gameState" /\ C29_Queued[i].st = "defeat"
    \/ /\ RenderResult(pending', {"default", "sync"}, base).defeat
       /\ ~RenderResult(pending, {"default", "sync"}, base).defeat

\* C29: every block ends at or above y = 420; a frame that kills a block has
\* the ball at y <= 428, registers no paddle collision and loses no life; and
\* no frame signals both victory and defeat.
C29_BlockHitExcludesPaddleAndLoss ==
    /\ [](\A i \in 1..Len(blocks) : blocks[i].y + blocks[i].height <= MaxPlayableY * U)
    /\ [][(op' = "tick" /\ \E i \in 1..Len(blocks) : blocks[i].alive /\ ~blocks'[i].alive) =>
            (/\ Integrate(ball).y <= MaxPlayableY * U + ball.radius
             /\ ~HitsPaddle(WallBounce(Integrate(ball)), paddle')
             /\ ~OutOfBounds(Integrate(ball))
             /\ ~C29_LifeLost)]_vars
    /\ [][op' = "tick" => ~(C29_VictorySignalled /\ C29_DefeatSignalled)]_vars

\* The block list is the one generateBlocksForLevel returns for the level,
\* block by block, whatever is alive of it.
C30_Installed ==
    \E g \in {generateBlocksForLevel(levelId)} :
        /\ Len(blocks) = Len(g)
        /\ \A i \in 1..Len(g) : [blocks[i] EXCEPT !.alive = TRUE] = [g[i] EXCEPT !.alive = TRUE]

\* C30: after a mount, every frame finds the level's block list installed;
\* while a block of the level is alive the status is not victory and no frame
\* signals victory; and a block dies only in a frame in which the ball
\* overlaps it.
C30_BlocksInstalledBeforeFirstTick ==
    /\ [][op' = "tick" => C30_Installed]_vars
    /\ []((Mounted /\ ~AllDead(blocks)) => gameState # "victory")
    /\ [](gameState = "victory" => (C30_Installed /\ AllDead(blocks)))
    /\ [][(op' = "tick" /\ ~AllDead(blocks')) => ~C29_VictorySignalled]_vars
    /\ [][\A i \in 1..Len(blocks) :
            (Len(blocks') = Len(blocks) /\ blocks[i].alive /\ ~blocks'[i].alive) =>
                (op' = "tick" /\ ballLaunched /\ Overlaps(Integrate(ball), blocks[i]))]_vars

\* witness of C30: the first frame after the mount of level 1 has run, with
\* all 24 blocks in place and alive and nothing queued
C30_FirstTickOnInstalledBlocks ==
    /\ op = "tick" /\ levelId = 1 /\ gameState = "playing" /\ pending = <<>>
    /\ Len(blocks) = 24
    /\ \A i \in 1..Len(blocks) : blocks[i].alive
    /\ ~ballLaunched
    /\ completeCalls = 0

====
